---------------------------- MODULE Spec2Model ----------------------------
(***************************************************************************)
(* A model of the core of the Barotrauma modding tool:                      *)
(*   - ModManager.sort / process_errors / activate_mod (mod_manager.py)     *)
(*   - CacheManager (cache_manager.py) and the scanner's parse step         *)
(*   - PartsManager, the content toggler (parts_manager.py)                 *)
(*   - ModManager.load_mods / save_preset / load_preset and the toggler     *)
(*     calls of save_mods and _on_exit (mod_manager.py)                     *)
(*   - the worker threads of the scan and of ModUnit.build                  *)
(*     (mod_manager.py, dataclasses.py) and extract_ids (id_parser.py)      *)
(* The specifications share the variables: SpecSort, SpecSortWide,          *)
(* SpecErrors, SpecCache, SpecCrash, SpecToggle, SpecLoad, SpecLife,        *)
(* SpecKill, SpecPar, SpecBuild, SpecIds and SpecLists.  Each one keeps     *)
(* the other parts' variables fixed.                                        *)
(***************************************************************************)
EXTENDS Integers, Sequences, FiniteSets, TLC

VARIABLES
    \* ---- ModManager ----
    mod_map,        \* ModManager._mod_map: id -> package metadata
    active_mods,    \* ModManager.active_mods: sequence of ids
    inactive_mods,  \* ModManager.inactive_mods: sequence of ids
    load_order,     \* ModUnit.load_order per id (NoOrder or a position)
    errors,         \* ModUnit.metadata.errors per id
    warnings,       \* ModUnit.metadata.warnings per id
    last_call,      \* history: the last ModManager operation and its inputs
    \* ---- CacheManager and the scanner ----
    files,          \* the package directory's two identity files
    cache_data,     \* CacheManager._cache_data: path -> (hash, ModUnit)
    is_dirty,       \* CacheManager._is_dirty
    cache_file,     \* the persisted mod_cache.pkl
    scan,           \* position of _parse_mod_safe and what it holds
    cache_hist,     \* history: last store / lookup and the file changes since
    \* ---- PartsManager ----
    filelist,       \* the saved filelist.xml: its children that name a file
    modparts,       \* the package's modparts.xml: its directives
    disk,           \* content files on disk: name -> "xml" | "xml_off" | "none"
    xml_file,       \* a saved content file: its inline-marker regions
    toggle_hist,    \* history: the last two toggler calls
    \* ---- ModManager.load_mods and the presets ----
    loaded_mods_raw, \* load_mods' loaded_mods_raw: the packages the scan returned
    preset_file,    \* the preset's xml file: the children of its root
    preset_hist,    \* history: the active list the preset was saved from
    \* ---- the toggler over the tool's run ----
    toggled,        \* per package: the last PartsManager call made for it
    running,        \* FALSE once the interpreter has run _on_exit
    config_player,  \* the package list last written to config_player.xml
    torn,           \* the files a kill of the process left half-written
    \* ---- the worker threads of the scan and of the builds ----
    par_files,      \* per file worker: the kind of file it was given
    par_pc,         \* per worker thread: its position
    par_lock,       \* per package: the thread holding ModUnit._lock, or None
    par_writes,     \* history: the writes made, by object, thread and lock held
    par_unit,       \* per package: add_id, override_id, has_toggle_content
    \* ---- one call of extract_ids ----
    id_tree,        \* the XML document: node data by path from the root
    id_pc,          \* position of the call: "call", "loop", "done"
    id_stack,       \* the stack of _parse_loop: items (path, is_override, ctx)
    id_unit,        \* the IDParserUnit being filled
    id_emits,       \* history: which node emitted which identifier into which set
    id_applied      \* history: per node taken off the stack, its context and rule

sortVars   == <<mod_map, active_mods, inactive_mods, load_order, errors, warnings, last_call>>
cacheVars  == <<files, cache_data, is_dirty, cache_file, scan, cache_hist>>
toggleVars == <<filelist, modparts, disk, xml_file, toggle_hist>>
presetVars == <<loaded_mods_raw, preset_file, preset_hist>>
lifeVars   == <<toggled, running, config_player, torn>>
parVars    == <<par_files, par_pc, par_lock, par_writes, par_unit>>
idVars     == <<id_tree, id_pc, id_stack, id_unit, id_emits, id_applied>>
vars       == <<sortVars, cacheVars, toggleVars, presetVars, lifeVars, parVars, idVars>>

None == "None"

\* ModUnit.load_order when it is None; the orders the code assigns start at 1
NoOrder == 0

(***************************************************************************)
(* Generic helpers                                                         *)
(***************************************************************************)
Range(s) == {s[i] : i \in DOMAIN s}

RECURSIVE SeqOf(_)
\* a set as a sequence, in a fixed order
SeqOf(S) == IF S = {} THEN <<>>
            ELSE LET x == CHOOSE y \in S : TRUE IN <<x>> \o SeqOf(S \ {x})

RECURSIVE Perms(_)
\* all orders in which a set can be iterated
Perms(S) == IF S = {} THEN {<<>>}
            ELSE UNION {{<<x>> \o p : p \in Perms(S \ {x})} : x \in S}

RECURSIVE SubsetsUpTo(_, _)
SubsetsUpTo(S, k) == IF k = 0 THEN {{}}
                     ELSE LET R == SubsetsUpTo(S, k - 1)
                          IN R \cup {r \cup {x} : r \in R, x \in S}

IndexOf(s, x) == CHOOSE i \in DOMAIN s : s[i] = x

Remove(s, x) == SelectSeq(s, LAMBDA y : y # x)

NoDup(s) == \A i, j \in DOMAIN s : s[i] = s[j] => i = j

Before(s, x, y) == \E i, j \in DOMAIN s : s[i] = x /\ s[j] = y /\ i < j

IsSubstring(s, t) ==
    \E i \in 0..(Len(t) - Len(s)) : SubSeq(t, i + 1, i + Len(s)) = s

(***************************************************************************)
(* Bounds                                                                   *)
(***************************************************************************)
MaxDeps == 2        \* dependency records declared by all packages together


(***************************************************************************)
(* Packages, dependencies, names                                           *)
(***************************************************************************)
ModIds == {"a", "b", "c"}       \* the ids of the scanned packages
UnknownId == "x"                \* an id no scanned package has
NoCond == "NoCond"              \* Dependency.condition is None
DepTypes == {"patch", "requirement", "requiredAnyOrder", "conflict"}
Identifiers == {"i1", "i2", "i3"}

\* the condition evaluator (condition_manager.process_condition), an opaque
\* predicate over the active ids: a condition names the package that must
\* be active
ProcessCondition(condition, active_mod_ids) == condition \in active_mod_ids

\* `dep.condition and not process_condition(dep.condition, ...)`
CondFails(dep, active_mod_ids) ==
    dep.condition # NoCond /\ ~ProcessCondition(dep.condition, active_mod_ids)

\* str.lower() on the characters the names use
LowerChar(c) ==
    CASE c = "C" -> "c" [] c = "P" -> "p" [] c = "S" -> "s"
      [] c = "T" -> "t" [] c = "Z" -> "z" [] c = "V" -> "v"
      [] c = "W" -> "w" [] c = "L" -> "l" [] OTHER -> c

Lower(s) == [i \in DOMAIN s |-> LowerChar(s[i])]

\* ModUnit.get_bool_setting for the string values metadata.xml yields
GetBoolSetting(mod, key) ==
    IF key \notin DOMAIN mod.settings THEN FALSE
    ELSE Lower(mod.settings[key]) = <<"t", "r", "u", "e">>

\* dict.get(key, default) on a dependency's attribute map
AttrGet(attributes, key, default) ==
    IF key \in DOMAIN attributes THEN attributes[key] ELSE default

PatchKeywords == { <<"p", "a", "t", "c", "h">>,
                   <<"c", "o", "m", "p", "a", "t", "i", "b", "i", "l", "i", "t", "y">>,
                   <<"c", "o", "m", "p", "a", "t">> }

(***************************************************************************)
(* ModManager.activate_mod / deactivate_mod as functions of the lists      *)
(***************************************************************************)
\* a faulty activate_mod: the package is not taken off the inactive list
ActivateModKeepsInactive(map, act, inact, mod_id) ==
    IF mod_id \in DOMAIN map /\ mod_id \in Range(inact)
    THEN [ok |-> TRUE, active |-> Append(act, mod_id), inactive |-> inact]
    ELSE [ok |-> FALSE, active |-> act, inactive |-> inact]

ActivateModOn(map, act, inact, mod_id) ==
    IF mod_id \notin DOMAIN map THEN [ok |-> FALSE, active |-> act, inactive |-> inact]
    ELSE IF mod_id \in Range(inact)
         THEN [ok |-> TRUE, active |-> Append(act, mod_id), inactive |-> Remove(inact, mod_id)]
         ELSE [ok |-> FALSE, active |-> act, inactive |-> inact]

DeactivateModOn(map, act, inact, mod_id) ==
    IF mod_id \notin DOMAIN map THEN [ok |-> FALSE, active |-> act, inactive |-> inact]
    ELSE IF mod_id \in Range(act)
         THEN [ok |-> TRUE, active |-> Remove(act, mod_id), inactive |-> Append(inact, mod_id)]
         ELSE [ok |-> FALSE, active |-> act, inactive |-> inact]

(***************************************************************************)
(* ModManager.sort                                                         *)
(***************************************************************************)
RECURSIVE FlatDeps(_, _)
\* the (mod, dep) pairs in the order `for mod in mods: for dep in deps`
FlatDeps(map, ms) ==
    IF ms = <<>> THEN <<>>
    ELSE LET m == Head(ms)
             ds == map[m].deps
         IN [i \in 1..Len(ds) |-> [mod |-> m, dep |-> ds[i]]] \o FlatDeps(map, Tail(ms))

RECURSIVE ScanMissing(_, _, _, _, _)
\* lines 586-605: ban_ids and the list of missing dependencies
ScanMissing(map, pairs, active_mod_ids, ban_ids, missing) ==
    IF pairs = <<>> THEN [ban_ids |-> ban_ids, missing |-> missing]
    ELSE LET dep == Head(pairs).dep
             rest == Tail(pairs)
         IN IF dep.type = "conflict"
            THEN ScanMissing(map, rest, active_mod_ids,
                             IF dep.id \in active_mod_ids THEN ban_ids \cup {dep.id} ELSE ban_ids,
                             missing)
            ELSE IF dep.type \in {"requirement", "patch"}
            THEN IF CondFails(dep, active_mod_ids)
                 THEN ScanMissing(map, rest, active_mod_ids, ban_ids, missing)
                 ELSE IF dep.id \notin active_mod_ids /\ dep.id \notin ban_ids
                         /\ dep.id \in DOMAIN map
                      THEN ScanMissing(map, rest, active_mod_ids, ban_ids, Append(missing, dep.id))
                      ELSE ScanMissing(map, rest, active_mod_ids, ban_ids, missing)
            ELSE ScanMissing(map, rest, active_mod_ids, ban_ids, missing)

RECURSIVE AutoActivate(_, _, _, _, _)
\* lines 607-616: activate the missing dependencies found by the scan
AutoActivate(map, missing, ban_ids, act, inact) ==
    IF missing = <<>> THEN [active |-> act, inactive |-> inact]
    ELSE LET new_mod == Head(missing)
             r == ActivateModOn(map, act, inact, new_mod)
         IN IF new_mod \notin Range(act) /\ new_mod \notin ban_ids /\ r.ok
            THEN AutoActivate(map, Tail(missing), ban_ids, r.active, r.inactive)
            ELSE AutoActivate(map, Tail(missing), ban_ids, act, inact)

\* lines 618-622: the first package, in list order, that adds an identifier
AddedIds(map, ms) ==
    [aid \in UNION {map[m].add_id : m \in Range(ms)} |->
        ms[CHOOSE i \in DOMAIN ms :
              /\ aid \in map[ms[i]].add_id
              /\ \A j \in 1..(i - 1) : aid \notin map[ms[j]].add_id]]

\* lines 628-636: the edges declared by patch / requirement dependencies
HardTargets(map, m, active_mod_ids) ==
    {dep.id : dep \in {d \in Range(map[m].deps) :
                          /\ d.id \in active_mod_ids
                          /\ d.type # "conflict"
                          /\ ~CondFails(d, active_mod_ids)
                          /\ d.type \in {"patch", "requirement"}}}

\* a faulty name heuristic: names of four characters are left out too
NameTargetsLongOnly(map, m, active_mod_ids) ==
    LET mod_name_lower == Lower(map[m].name)
        is_potential_patch == \E k \in PatchKeywords : IsSubstring(k, mod_name_lower)
    IN IF is_potential_patch
       THEN {o \in active_mod_ids \ {m} :
                LET other_name == Lower(map[o].name)
                IN Len(other_name) > 4 /\ IsSubstring(other_name, mod_name_lower)}
       ELSE {}

\* lines 638-644: the name heuristic
NameTargets(map, m, active_mod_ids) ==
    LET mod_name_lower == Lower(map[m].name)
        is_potential_patch == \E k \in PatchKeywords : IsSubstring(k, mod_name_lower)
    IN IF is_potential_patch
       THEN {o \in active_mod_ids \ {m} :
                LET other_name == Lower(map[o].name)
                IN Len(other_name) > 3 /\ IsSubstring(other_name, mod_name_lower)}
       ELSE {}

\* lines 646-651: the adders of overridden identifiers
OverrideTargets(map, m, ms) ==
    LET added_ids == AddedIds(map, ms)
    IN IF ~GetBoolSetting(map[m], "IgnoreOverrideCheck")
       THEN {added_ids[oid] : oid \in map[m].override_id \cap DOMAIN added_ids} \ {m}
       ELSE {}

Dependencies(map, ms) ==
    [m \in Range(ms) |-> HardTargets(map, m, Range(ms))
                         \cup NameTargets(map, m, Range(ms))
                         \cup OverrideTargets(map, m, ms)]

\* line 636: hard_edges
HardEdges(map, ms) ==
    {e \in Range(ms) \X Range(ms) : e[2] \in HardTargets(map, e[1], Range(ms))}

\* lines 658-661: children in the insertion order of the dependencies dict,
\* which is the order of the active list
ChildrenGraph(ms, dependencies) ==
    [p \in Range(ms) |-> SelectSeq(ms, LAMBDA c : p \in dependencies[c])]

RECURSIVE DecChildren(_, _, _)
\* lines 684-687
DecChildren(cs, in_degree, queue) ==
    IF cs = <<>> THEN [in_degree |-> in_degree, queue |-> queue]
    ELSE LET v == Head(cs)
             n == in_degree[v] - 1
         IN DecChildren(Tail(cs), [in_degree EXCEPT ![v] = n],
                        IF n = 0 THEN Append(queue, v) ELSE queue)

RECURSIVE ProcessQueue(_, _)
\* lines 674-687
ProcessQueue(st, children_graph) ==
    IF st.queue = <<>> THEN st
    ELSE LET u == Head(st.queue)
         IN IF u \in Range(st.sorted_mods)
            THEN ProcessQueue([st EXCEPT !.queue = Tail(st.queue)], children_graph)
            ELSE LET r == DecChildren(children_graph[u], st.in_degree, Tail(st.queue))
                 IN ProcessQueue([st EXCEPT !.queue = r.queue,
                                            !.in_degree = r.in_degree,
                                            !.sorted_mods = Append(st.sorted_mods, u)],
                                 children_graph)


\* lines 700-710, one pass of `for u in list(unresolved)`: the soft edges u
\* still holds on unresolved packages
SoftHolders(st, hard_edges, unresolved, u) ==
    {p \in st.dependencies[u] \cap unresolved : <<u, p>> \notin hard_edges}

RECURSIVE SoftLoop(_, _, _, _, _, _)
\* lines 695-713.  The pass removes every soft edge between unresolved
\* packages; u is queued when its in_degree passes through 0 on the way.
\* The queue order is the iteration order of a set: any order.
SoftLoop(st, has_soft_resolves, ms, hard_edges, children_graph, fuel) ==
    IF ~(has_soft_resolves /\ Len(st.sorted_mods) # Len(ms)) THEN {st}
    ELSE IF fuel = 0 THEN {[st EXCEPT !.diverged = TRUE]}
    ELSE LET unresolved == Range(ms) \ Range(st.sorted_mods)
             SH(u) == SoftHolders(st, hard_edges, unresolved, u)
             hit == {u \in unresolved :
                        st.in_degree[u] >= 1 /\ st.in_degree[u] <= Cardinality(SH(u))}
             st1 == [st EXCEPT
                        !.dependencies = [u \in DOMAIN @ |->
                            IF u \in unresolved THEN @[u] \ SH(u) ELSE @[u]],
                        !.in_degree = [u \in DOMAIN @ |->
                            IF u \in unresolved THEN @[u] - Cardinality(SH(u)) ELSE @[u]],
                        !.dropped = @ \cup {e \in unresolved \X unresolved :
                                                e[2] \in SH(e[1])}]
         IN IF hit = {}
            THEN {st1}
            ELSE UNION {SoftLoop(ProcessQueue([st1 EXCEPT !.queue = q], children_graph),
                                 TRUE, ms, hard_edges, children_graph, fuel - 1)
                        : q \in Perms(hit)}

\* a faulty residue phase: unresolved packages are never forced out
ForcedLoopSkipped(st, ms, children_graph, fuel) == {st}

RECURSIVE ForcedLoop(_, _, _, _)
\* lines 715-726.  min() over a set returns the first minimum in the set's
\* iteration order: any of the minima.
ForcedLoop(st, ms, children_graph, fuel) ==
    IF Len(st.sorted_mods) = Len(ms) THEN {st}
    ELSE LET unresolved == Range(ms) \ Range(st.sorted_mods)
             key(mid) == Cardinality(st.dependencies[mid] \cap unresolved)
             best == {mid \in unresolved : \A o \in unresolved : key(mid) <= key(o)}
         IN IF unresolved = {} THEN {st}
            ELSE IF fuel = 0 THEN {[st EXCEPT !.diverged = TRUE]}
            ELSE UNION {ForcedLoop(
                            ProcessQueue([st EXCEPT !.queue = <<best_mod_id>>,
                                                    !.in_degree[best_mod_id] = 0,
                                                    !.forced = Append(@, best_mod_id)],
                                         children_graph),
                            ms, children_graph, fuel - 1)
                        : best_mod_id \in best}

\* a faulty seeding: the in-degree test is missing
InitialQueueAll(ms, in_degree) == ms

\* a faulty seeding: the packages without a parent, last to first
InitialQueueReversed(ms, in_degree) ==
    LET q == SelectSeq(ms, LAMBDA m : in_degree[m] = 0)
    IN  [i \in 1..Len(q) |-> q[Len(q) + 1 - i]]

\* lines 664-669: the packages without a parent, in their current order
InitialQueue(ms, in_degree) == SelectSeq(ms, LAMBDA m : in_degree[m] = 0)

\* lines 654-726 on the list `mods` (after auto-activation): the set of the
\* final states of the sort, one per resolution of the set iteration orders
KahnOutcomes(map, ms) ==
    LET dependencies == Dependencies(map, ms)
        hard_edges == HardEdges(map, ms)
        children_graph == ChildrenGraph(ms, dependencies)
        in_degree == [u \in Range(ms) |-> Cardinality(dependencies[u])]
        st0 == [queue |-> InitialQueue(ms, in_degree),
                in_degree |-> in_degree,
                dependencies |-> dependencies,
                sorted_mods |-> <<>>,
                dropped |-> {},
                forced |-> <<>>,
                cycle |-> FALSE,
                residue |-> 0,
                diverged |-> FALSE]
        st1 == ProcessQueue(st0, children_graph)
        fuel == Len(ms) + 1
    IN IF Len(st1.sorted_mods) = Len(ms) THEN {st1}
       ELSE UNION {IF s.diverged THEN {s} ELSE ForcedLoop(s, ms, children_graph, fuel)
                   : s \in SoftLoop([st1 EXCEPT !.cycle = TRUE,
                                                 !.residue = Len(ms) - Len(st1.sorted_mods)],
                                    TRUE, ms,
                                    hard_edges, children_graph, fuel)}

\* lines 568-616: the active and inactive lists after auto-activation
SortActivation(map, act, inact) ==
    LET scanned == ScanMissing(map, FlatDeps(map, act), Range(act), {}, <<>>)
    IN AutoActivate(map, scanned.missing, scanned.ban_ids, act, inact)

\* ModManager.sort up to line 731: every (active list, inactive list) the
\* call can end with, and what it did on the way
SortOutcomes(map, act, inact) ==
    IF act = <<>> THEN {[active |-> act, inactive |-> inact, mods |-> act, auto |-> {},
                        cycle |-> FALSE, residue |-> 0, dropped |-> {}, forced |-> <<>>,
                        diverged |-> FALSE]}
    ELSE LET a == SortActivation(map, act, inact)
         IN {[active |-> s.sorted_mods, inactive |-> a.inactive, mods |-> a.active,
              auto |-> Range(a.active) \ Range(act), cycle |-> s.cycle,
              residue |-> s.residue, dropped |-> s.dropped, forced |-> s.forced, diverged |-> s.diverged]
             : s \in KahnOutcomes(map, a.active)}


(***************************************************************************)
(* ModManager.process_errors                                               *)
(***************************************************************************)
\* a message: a literal text, or a localization key with its parameters
\* (loc.get_string is an opaque translation)
Msg(kind, ref, key) == [kind |-> kind, ref |-> ref, key |-> key]

\* lines 520-524: the first active package, in list order, that has the
\* identifier in its override_id
BindId(map, act) ==
    [over_id \in UNION {map[m].override_id : m \in Range(act)} |->
        act[CHOOSE i \in DOMAIN act :
               /\ over_id \in map[act[i]].override_id
               /\ \A j \in 1..(i - 1) : over_id \notin map[act[j]].override_id]]

\* a faulty default: a conflict without a level is filed as a warning
ConflictLevelDefaultWarning(dep) == AttrGet(dep.attributes, "level", "warning")

\* line 535
ConflictLevel(dep) == AttrGet(dep.attributes, "level", "error")

\* line 536
ConflictMessage(dep) ==
    Msg("text", AttrGet(dep.attributes, "message", "base-conflict"), None)

\* a faulty test: the condition of the dependency is not looked at
IsUnfoundWhateverCondition(dep, active_ids) == dep.id \notin active_ids

\* lines 545-553: whether a requirement or patch dependency gets the
\* mod-unfind-mod error
IsUnfound(dep, active_ids) ==
    LET is_missing == dep.id \notin active_ids
    IN IF dep.condition # NoCond
       THEN ProcessCondition(dep.condition, active_ids) /\ is_missing
       ELSE is_missing

RECURSIVE DepMessages(_, _, _)
\* lines 532-553 for one package: the lists after the loop over its deps
DepMessages(deps, active_ids, lists) ==
    IF deps = <<>> THEN lists
    ELSE LET dep == Head(deps)
             unfind == Msg("mod-unfind-mod", dep.id, None)
             next ==
                IF dep.type = "conflict"
                THEN IF dep.id \in active_ids
                     THEN LET level == ConflictLevel(dep)
                              msg == ConflictMessage(dep)
                          IN IF level = "warning"
                             THEN [lists EXCEPT !.warnings = Append(@, msg)]
                             ELSE [lists EXCEPT !.errors = Append(@, msg)]
                     ELSE lists
                ELSE IF dep.type = "requiredAnyOrder" THEN lists
                ELSE IF IsUnfound(dep, active_ids)
                     THEN [lists EXCEPT !.errors = Append(@, unfind)]
                     ELSE lists
         IN DepMessages(Tail(deps), active_ids, next)

\* lines 555-565 for one package
OverrideWarnings(map, m, bind_id) ==
    LET hits == {over_id \in map[m].override_id :
                    over_id \in DOMAIN bind_id /\ bind_id[over_id] # m}
    IN [i \in 1..Cardinality(hits) |->
           Msg("mod-override-id", bind_id[SeqOf(hits)[i]], SeqOf(hits)[i])]

\* lines 526-565 for one package, ModUnit.update_meta_errors first
ModMessages(map, act, m) ==
    LET cleared == [errors |-> map[m].meta_errors, warnings |-> map[m].meta_warnings]
        after == DepMessages(map[m].deps, Range(act), cleared)
    IN [after EXCEPT !.warnings = @ \o OverrideWarnings(map, m, BindId(map, act))]

(***************************************************************************)
(* The inputs of the sort specification                                    *)
(***************************************************************************)
EmptyAttrs == [k \in {} |-> ""]
NoSettings == [k \in {} |-> <<>>]

Dep(id, type, condition, attributes) ==
    [id |-> id, type |-> type, condition |-> condition, attributes |-> attributes]

Others(s) == ModIds \ {s}

\* the dependency records metadata.xml files may declare, with the
\* declaring package
SortDepMenu ==
    UNION {{[src |-> s, dep |-> Dep(t, "requirement", NoCond, EmptyAttrs)] : t \in Others(s)}
           : s \in ModIds}
    \cup {[src |-> "a", dep |-> Dep("b", "patch", NoCond, EmptyAttrs)],
          [src |-> "b", dep |-> Dep("c", "patch", NoCond, EmptyAttrs)],
          [src |-> "c", dep |-> Dep("a", "patch", NoCond, EmptyAttrs)],
          [src |-> "a", dep |-> Dep("b", "conflict", NoCond, EmptyAttrs)],
          [src |-> "b", dep |-> Dep("c", "conflict", NoCond, EmptyAttrs)],
          [src |-> "c", dep |-> Dep("a", "conflict", NoCond, EmptyAttrs)],
          [src |-> "a", dep |-> Dep("b", "requirement", "c", EmptyAttrs)],
          [src |-> "b", dep |-> Dep("c", "requirement", "a", EmptyAttrs)],
          [src |-> "c", dep |-> Dep("a", "requirement", "b", EmptyAttrs)],
          [src |-> "a", dep |-> Dep(UnknownId, "requirement", NoCond, EmptyAttrs)],
          [src |-> "a", dep |-> Dep("b", "requiredAnyOrder", NoCond, EmptyAttrs)],
          [src |-> "a", dep |-> Dep("a", "requirement", NoCond, EmptyAttrs)]}

NameCore      == <<"C", "o", "r", "e">>
NameSub       == <<"S", "u", "b">>
NameZeta      == <<"Z", "e", "t", "a">>
NameCoreSubPatch == <<"C", "o", "r", "e", " ", "S", "u", "b", " ", "P", "a", "t", "c", "h">>
NameCorePatch == <<"C", "o", "r", "e", " ", "P", "a", "t", "c", "h">>
NameCorePatchLower == <<"c", "o", "r", "e", " ", "p", "a", "t", "c", "h">>
SettingTrue   == <<"T", "r", "u", "e">>

Soft(name, add_id, override_id, settings) ==
    [name |-> name, add_id |-> add_id, override_id |-> override_id, settings |-> settings]

NoIds == [m \in ModIds |-> {}]
NoModSettings == [m \in ModIds |-> NoSettings]
PlainNames == [m \in ModIds |-> CASE m = "a" -> NameCore [] m = "b" -> NameSub [] OTHER -> NameZeta]

\* names, identifier sets and settings of the three packages
SoftMenu ==
    { \* no soft edge
      Soft(PlainNames, NoIds, NoIds, NoModSettings),
      \* c is named after a (long name) and b (short name)
      Soft([PlainNames EXCEPT !["c"] = NameCoreSubPatch], NoIds, NoIds, NoModSettings),
      \* a and b have the same lower-case name, a patch name
      Soft([PlainNames EXCEPT !["a"] = NameCorePatch, !["b"] = NameCorePatchLower],
           NoIds, NoIds, NoModSettings),
      \* a overrides what b adds, b what c adds, c what a adds
      Soft(PlainNames,
           [m \in ModIds |-> CASE m = "a" -> {"i1"} [] m = "b" -> {"i2"} [] OTHER -> {"i3"}],
           [m \in ModIds |-> CASE m = "a" -> {"i2"} [] m = "b" -> {"i3"} [] OTHER -> {"i1"}],
           NoModSettings),
      \* a and b add i1, b and c override it, b opts out of the check
      Soft(PlainNames,
           [m \in ModIds |-> IF m \in {"a", "b"} THEN {"i1"} ELSE {}],
           [m \in ModIds |-> IF m \in {"b", "c"} THEN {"i1"} ELSE {}],
           [NoModSettings EXCEPT !["b"] = [k \in {"IgnoreOverrideCheck"} |-> SettingTrue]]) }

DepsOf(D, m) == SeqOf({r.dep : r \in {x \in D : x.src = m}})

MakeModMap(D, soft) ==
    [m \in ModIds |->
        [name |-> soft.name[m], deps |-> DepsOf(D, m),
         add_id |-> soft.add_id[m], override_id |-> soft.override_id[m],
         settings |-> soft.settings[m],
         meta_errors |-> <<>>, meta_warnings |-> <<>>]]

ActiveLists == UNION {Perms(S) : S \in SUBSET ModIds}

NoCall == [op |-> "none"]


(***************************************************************************)
(* ModManager: the operations as actions                                   *)
(***************************************************************************)
(***************************************************************************)
(* CacheManager (cache_manager.py) and ModManager._parse_mod_safe          *)
(***************************************************************************)
MaxFileLen == 1
MaxEdits == 2

Bytes == {0, 1}
Path == "p"
IdentityFiles == {"filelist", "metadata"}

\* a file on disk: absent, or present with its bytes
NoFile == [exists |-> FALSE, bytes |-> <<>>]
File(bytes) == [exists |-> TRUE, bytes |-> bytes]

RECURSIVE ByteSeqs(_)
ByteSeqs(n) ==
    IF n = 0 THEN {<<>>}
    ELSE ByteSeqs(n - 1) \cup {Append(q, b) : q \in {r \in ByteSeqs(n - 1) : Len(r) = n - 1}, b \in Bytes}

FileValues == {NoFile} \cup {File(q) : q \in ByteSeqs(MaxFileLen)}

\* hashlib.md5 over the bytes fed to it, taken as free of collisions: two
\* digests are equal exactly when the streams are
Md5(stream) == stream

\* a faulty fingerprint that reads filelist.xml only
ComputeModHashFilelistOnly(fs) ==
    Md5(IF fs.filelist.exists THEN fs.filelist.bytes ELSE <<>>)

\* CacheManager._compute_mod_hash (lines 83-104): the bytes of filelist.xml
\* then of metadata.xml go into one hasher; a missing file feeds nothing
ComputeModHash(fs) ==
    Md5((IF fs.filelist.exists THEN fs.filelist.bytes ELSE <<>>)
        \o (IF fs.metadata.exists THEN fs.metadata.bytes ELSE <<>>))

\* XMLBuilder.load returns None on a file that holds no element
XmlLoads(bytes) == bytes # <<>>

\* the ModUnit built from what was read: ModUnit.build (dataclasses.py 118-148)
\* reads filelist.xml in _parse_filelist and metadata.xml in _parse_metadata
NoMod == [built |-> FALSE, filelist |-> <<>>, metadata |-> NoFile]
ModUnitOf(filelist_bytes, metadata_file) ==
    [built |-> TRUE, filelist |-> filelist_bytes, metadata |-> metadata_file]

\* the identity files a ModUnit was parsed from
ParsedFrom(mod) == [filelist |-> File(mod.filelist), metadata |-> mod.metadata]

NoCacheFile == [exists |-> FALSE, data |-> <<>>]
ScanIdle == [pc |-> "idle", mod |-> NoMod, result |-> "none"]
NoCacheHist ==
    [stored |-> FALSE, stored_files |-> [filelist |-> NoFile, metadata |-> NoFile],
     modified |-> FALSE, edits |-> 0, edit |-> "none", hash_changed |-> FALSE,
     lookup |-> "none", op |-> "none", flush |-> "none"]

\* the results of changing one byte of a file: one byte replaced, one byte
\* added at the end, the last byte removed
OneByteChanges(f) ==
    IF ~f.exists THEN {}
    ELSE ({File([f.bytes EXCEPT ![i] = b]) : i \in DOMAIN f.bytes, b \in Bytes} \ {f})
         \cup (IF Len(f.bytes) < MaxFileLen
               THEN {File(Append(f.bytes, b)) : b \in Bytes} ELSE {})
         \cup (IF f.bytes # <<>> THEN {File(SubSeq(f.bytes, 1, Len(f.bytes) - 1))} ELSE {})

\* creating the file empty, or deleting it
OtherChanges(f) == IF f.exists THEN {NoFile} ELSE {File(<<>>)}

\* the user or the game's workshop client changes an identity file
ModifyFile ==
    /\ cache_hist.edits < MaxEdits
    /\ \E name \in IdentityFiles, kind \in {"byte", "other"} :
         \E f \in (IF kind = "byte" THEN OneByteChanges(files[name])
                                    ELSE OtherChanges(files[name])) :
            /\ files' = [files EXCEPT ![name] = f]
            /\ cache_hist' = [cache_hist EXCEPT
                   !.edits = @ + 1, !.edit = kind, !.modified = TRUE,
                   !.hash_changed = ComputeModHash(files') # ComputeModHash(files),
                   !.lookup = "none", !.op = "modify"]
    /\ UNCHANGED <<cache_data, is_dirty, cache_file, scan, sortVars, toggleVars, presetVars, lifeVars, parVars, idVars>>

\* CacheManager.get_cached_mod (lines 51-68)
GetCachedMod(data, fs) ==
    IF Path \notin DOMAIN data THEN NoMod
    ELSE IF ComputeModHash(fs) = data[Path].hash THEN data[Path].mod
    ELSE NoMod

\* _parse_mod_safe lines 45-46
ScanStart ==
    /\ scan.pc = "idle"
    /\ scan' = IF files.filelist.exists
               THEN [scan EXCEPT !.pc = "lookup"]
               ELSE [pc |-> "done", mod |-> NoMod, result |-> "nothing"]
    /\ cache_hist' = [cache_hist EXCEPT !.op = "scan"]
    /\ UNCHANGED <<files, cache_data, is_dirty, cache_file, sortVars, toggleVars, presetVars, lifeVars, parVars, idVars>>

\* _parse_mod_safe lines 48-50
ScanLookup ==
    /\ scan.pc = "lookup"
    /\ LET cached_mod == GetCachedMod(cache_data, files)
       IN /\ scan' = IF cached_mod.built
                     THEN [pc |-> "done", mod |-> cached_mod, result |-> "hit"]
                     ELSE [scan EXCEPT !.pc = "build"]
          /\ cache_hist' = [cache_hist EXCEPT
                 !.lookup = IF Path \notin DOMAIN cache_data THEN "absent"
                            ELSE IF cached_mod.built THEN "hit" ELSE "miss",
                 !.edit = "none", !.hash_changed = FALSE, !.op = "lookup"]
    /\ UNCHANGED <<files, cache_data, is_dirty, cache_file, sortVars, toggleVars, presetVars, lifeVars, parVars, idVars>>

\* ModUnit.build, first read: _parse_filelist (dataclasses.py 162-176)
ScanBuildFilelist ==
    /\ scan.pc = "build"
    /\ scan' = IF files.filelist.exists /\ XmlLoads(files.filelist.bytes)
               THEN [pc |-> "build_meta", mod |-> ModUnitOf(files.filelist.bytes, NoFile),
                     result |-> "none"]
               ELSE [pc |-> "done", mod |-> NoMod, result |-> "nothing"]
    /\ cache_hist' = [cache_hist EXCEPT !.op = "scan"]
    /\ UNCHANGED <<files, cache_data, is_dirty, cache_file, sortVars, toggleVars, presetVars, lifeVars, parVars, idVars>>

\* ModUnit.build, second read: _parse_metadata (dataclasses.py 242-252)
ScanBuildMetadata ==
    /\ scan.pc = "build_meta"
    /\ scan' = [pc |-> "store", mod |-> ModUnitOf(scan.mod.filelist, files.metadata),
                result |-> "none"]
    /\ cache_hist' = [cache_hist EXCEPT !.op = "scan"]
    /\ UNCHANGED <<files, cache_data, is_dirty, cache_file, sortVars, toggleVars, presetVars, lifeVars, parVars, idVars>>

\* CacheManager.update_cache (lines 71-80), called at _parse_mod_safe line 55
ScanStore ==
    /\ scan.pc = "store"
    /\ cache_data' = (Path :> [hash |-> ComputeModHash(files), mod |-> scan.mod])
    /\ is_dirty' = TRUE
    /\ scan' = [scan EXCEPT !.pc = "done", !.result = "built"]
    /\ cache_hist' = [cache_hist EXCEPT
           !.stored = TRUE, !.stored_files = files, !.modified = FALSE,
           !.lookup = "none", !.edit = "none", !.hash_changed = FALSE,
           !.op = "store", !.flush = "none"]
    /\ UNCHANGED <<files, cache_file, sortVars, toggleVars, presetVars, lifeVars, parVars, idVars>>

\* the next scan of the package directory (load_mods is run again)
ScanAgain ==
    /\ scan.pc = "done"
    /\ scan' = ScanIdle
    /\ cache_hist' = [cache_hist EXCEPT !.op = "scan"]
    /\ UNCHANGED <<files, cache_data, is_dirty, cache_file, sortVars, toggleVars, presetVars, lifeVars, parVars, idVars>>

\* a save that writes whatever the flag says
SaveAlwaysWrites ==
    /\ scan.pc = "done"
    /\ cache_file' = [exists |-> TRUE, data |-> cache_data]
    /\ is_dirty' = FALSE
    /\ cache_hist' = [cache_hist EXCEPT !.op = "save_wrote", !.flush = "clean"]
    /\ UNCHANGED <<files, cache_data, scan, sortVars, toggleVars, presetVars, lifeVars, parVars, idVars>>

\* CacheManager.save (lines 37-48), called by load_mods after the scan
Save ==
    /\ scan.pc = "done"
    /\ IF ~is_dirty
       THEN /\ cache_hist' = [cache_hist EXCEPT !.op = "save_noop"]
            /\ UNCHANGED <<cache_file, is_dirty>>
       ELSE /\ cache_file' = [exists |-> TRUE, data |-> cache_data]
            /\ is_dirty' = FALSE
            /\ cache_hist' = [cache_hist EXCEPT !.op = "save_wrote", !.flush = "clean"]
    /\ UNCHANGED <<files, cache_data, scan, sortVars, toggleVars, presetVars, lifeVars, parVars, idVars>>

\* CacheManager.clear (lines 107-114)
Clear ==
    /\ scan.pc \in {"idle", "done"}
    /\ cache_data # <<>>
    /\ cache_data' = <<>>
    /\ is_dirty' = TRUE
    /\ cache_file' = NoCacheFile
    /\ cache_hist' = [cache_hist EXCEPT
           !.stored = FALSE, !.stored_files = NoCacheHist.stored_files,
           !.modified = FALSE, !.lookup = "none", !.edit = "none",
           !.hash_changed = FALSE, !.op = "clear",
           !.flush = IF @ = "none" THEN "none" ELSE "cleared"]
    /\ UNCHANGED <<files, scan, sortVars, toggleVars, presetVars, lifeVars, parVars, idVars>>

(***************************************************************************)
(* PartsManager, the content toggler (parts_manager.py)                    *)
(***************************************************************************)
MaxDirectives == 3
MaxChildren == 2

FileNames == {"F", "G"}
NoState == "NoState"
\* the package being toggled is "a"; it is active whenever save_mods toggles it
ActiveSets == {{"a"}, {"a", "b"}}

\* str.lower on the setState values in use
LowerState(state) == IF state = "ON" THEN "on" ELSE state

\* lines 82 and 145: state.lower() in ("on", "1", "true")
TargetIsActive(state) == LowerState(state) \in {"on", "1", "true"}

\* XMLElement.to_comment / XMLComment.to_element on a node: an element, a
\* comment that holds an element, or a comment that holds plain text
ToComment(kind) == "comment"
ToElementFails(kind) == kind = "text"
ToElement(kind) == "element"

RECURSIVE SeqsUpTo(_, _)
SeqsUpTo(S, n) ==
    IF n = 0 THEN {<<>>}
    ELSE SeqsUpTo(S, n - 1)
         \cup {Append(q, x) : q \in {r \in SeqsUpTo(S, n - 1) : Len(r) = n - 1}, x \in S}

\* PartsManager._rename_file_on_disk (lines 188-206); every file of the
\* model has the suffix .xml
RenameFileOnDisk(dk, file, to_active) ==
    IF to_active
    THEN IF dk[file] = "xml_off" THEN [dk EXCEPT ![file] = "xml"] ELSE dk
    ELSE IF dk[file] = "xml" THEN [dk EXCEPT ![file] = "xml_off"] ELSE dk

\* lines 154-169: the first child of filelist.xml that names the file
FirstMatch(fl, file) ==
    IF \E i \in DOMAIN fl : fl[i].file = file
    THEN CHOOSE i \in DOMAIN fl : fl[i].file = file /\ \A j \in 1..(i - 1) : fl[j].file # file
    ELSE 0

NoNode == [file |-> None, kind |-> None]

\* lines 136-182: the loop over the directives of modparts.xml.  new_node is
\* the local of that name: it is assigned at line 177 only, and line 172
\* reads it; reading it unassigned raises UnboundLocalError, which leaves
\* _process_config before the save of line 184
RECURSIVE ConfigLoop(_, _, _, _, _)
ConfigLoop(st, directives, n, active_mod_ids, is_rollback) ==
    IF n > Len(directives) \/ st.aborted THEN st
    ELSE LET action == directives[n]
             skip == ~is_rollback /\ action.cond # NoCond
                     /\ ~ProcessCondition(action.cond, active_mod_ids)
             target_is_active == TargetIsActive(action.state)
             should_be_active == IF is_rollback THEN ~target_is_active ELSE target_is_active
             i == FirstMatch(st.filelist, action.file)
             is_comment == st.filelist[i].kind = "comment"
             next ==
                 IF skip \/ i = 0 THEN st
                 ELSE IF should_be_active /\ is_comment
                 THEN IF st.new_node = NoNode
                      THEN [st EXCEPT !.aborted = TRUE]
                      ELSE [st EXCEPT !.filelist[i] = st.new_node,
                                      !.filelist_modified = TRUE,
                                      !.disk = RenameFileOnDisk(st.disk, action.file, TRUE)]
                 ELSE IF ~should_be_active /\ ~is_comment
                 THEN LET new_node == [st.filelist[i] EXCEPT !.kind = ToComment(@)]
                      IN [st EXCEPT !.new_node = new_node,
                                    !.filelist[i] = new_node,
                                    !.filelist_modified = TRUE,
                                    !.disk = RenameFileOnDisk(st.disk, action.file, FALSE)]
                 ELSE st
         IN ConfigLoop(next, directives, n + 1, active_mod_ids, is_rollback)

\* PartsManager._process_config (lines 123-185): what it leaves on disk
ProcessConfig(fl, directives, dk, active_mod_ids, is_rollback) ==
    LET st == ConfigLoop([filelist |-> fl, disk |-> dk, new_node |-> NoNode,
                          filelist_modified |-> FALSE, aborted |-> FALSE],
                         directives, 1, active_mod_ids, is_rollback)
        saved == st.filelist_modified /\ ~st.aborted
    IN [filelist |-> IF saved THEN st.filelist ELSE fl,
        disk |-> st.disk,
        saved |-> saved,
        aborted |-> st.aborted]

\* lines 100-117: one child of a region
ConvertChild(kind, should_be_active) ==
    IF should_be_active /\ kind # "element"
    THEN IF ToElementFails(kind) THEN kind ELSE ToElement(kind)
    ELSE IF ~should_be_active /\ kind = "element" THEN ToComment(kind)
    ELSE kind

\* a faulty region step: a false condition disables the region
ProcessRegionOffOnFalse(region, active_mod_ids, is_rollback) ==
    IF region.state = NoState THEN region
    ELSE LET target_is_active == TargetIsActive(region.state)
             should_be_active ==
                 IF is_rollback THEN ~target_is_active
                 ELSE IF region.cond # NoCond /\ ~ProcessCondition(region.cond, active_mod_ids)
                 THEN FALSE
                 ELSE target_is_active
         IN [region EXCEPT !.children =
                [k \in DOMAIN region.children |->
                    ConvertChild(region.children[k], should_be_active)]]

\* lines 75-117: one region between a start and an end marker
ProcessRegion(region, active_mod_ids, is_rollback) ==
    IF region.state = NoState THEN region
    ELSE IF ~is_rollback /\ region.cond # NoCond
            /\ ~ProcessCondition(region.cond, active_mod_ids)
    THEN region
    ELSE LET target_is_active == TargetIsActive(region.state)
             should_be_active == IF is_rollback THEN ~target_is_active ELSE target_is_active
         IN [region EXCEPT !.children =
                [k \in DOMAIN region.children |->
                    ConvertChild(region.children[k], should_be_active)]]

\* PartsManager._process_single_xml (lines 64-120): the file is saved only
\* when a node was replaced
ProcessSingleXml(regions, active_mod_ids, is_rollback) ==
    LET new == [r \in DOMAIN regions |-> ProcessRegion(regions[r], active_mod_ids, is_rollback)]
    IN [regions |-> new, modified |-> new # regions]

NoToggleCall == [op |-> "none", active_mod_ids |-> {}, pre_xml |-> <<>>,
                 changed |-> FALSE, xml_saved |-> FALSE, aborted |-> FALSE]
NoToggleHist == [prev |-> NoToggleCall, last |-> NoToggleCall]

\* do_changes (lines 23-25) and rollback_changes_no_thread (lines 33-39):
\* the manifest first, then the content files; an exception of the manifest
\* step leaves the call before the content files are reached
Toggle(active_mod_ids, is_rollback) ==
    LET cfg == ProcessConfig(filelist, modparts, disk, active_mod_ids, is_rollback)
        xml == IF cfg.aborted THEN [regions |-> xml_file, modified |-> FALSE]
               ELSE ProcessSingleXml(xml_file, active_mod_ids, is_rollback)
    IN /\ filelist' = cfg.filelist
       /\ disk' = cfg.disk
       /\ xml_file' = xml.regions
       /\ toggle_hist' =
              [prev |-> toggle_hist.last,
               last |-> [op |-> IF is_rollback THEN "rollback" ELSE "forward",
                         active_mod_ids |-> active_mod_ids,
                         pre_xml |-> xml_file,
                         changed |-> cfg.saved \/ cfg.disk # disk \/ xml.modified,
                         xml_saved |-> xml.modified,
                         aborted |-> cfg.aborted]]
       /\ UNCHANGED <<modparts, sortVars, cacheVars, presetVars, lifeVars, parVars, idVars>>

\* PartsManager.do_changes, called by save_mods with the active ids
DoChanges == \E active_mod_ids \in ActiveSets : Toggle(active_mod_ids, FALSE)

\* PartsManager.rollback_changes / rollback_changes_no_thread
RollbackChanges == Toggle({}, TRUE)

\* a faulty refresh: the error lists are left as they were
ErrorsAfterStale(map, act, old) == old

\* a faulty refresh: update_meta_errors does not clear the list
ErrorsAfterAccumulates(map, act, old) ==
    [m \in DOMAIN old |-> IF m \in Range(act) THEN old[m] \o ModMessages(map, act, m).errors
                          ELSE old[m]]

\* the error and warning lists after process_errors on the active list act
ErrorsAfter(map, act, old) ==
    [m \in DOMAIN old |-> IF m \in Range(act) THEN ModMessages(map, act, m).errors ELSE old[m]]

WarningsAfter(map, act, old) ==
    [m \in DOMAIN old |-> IF m \in Range(act) THEN ModMessages(map, act, m).warnings ELSE old[m]]

\* ModManager.process_errors (lines 517-565)
ProcessErrorsCall ==
    /\ errors' = ErrorsAfter(mod_map, active_mods, errors)
    /\ warnings' = WarningsAfter(mod_map, active_mods, warnings)
    /\ last_call' = [op |-> "process_errors", pre_errors |-> errors,
                     pre_warnings |-> warnings]
    /\ UNCHANGED <<mod_map, active_mods, inactive_mods, load_order, cacheVars, toggleVars, presetVars, lifeVars, parVars, idVars>>

\* ModManager.sort (lines 568-734)
SortCall ==
    \E o \in SortOutcomes(mod_map, active_mods, inactive_mods) :
        /\ last_call' = [op |-> "sort", pre_active |-> active_mods,
                         pre_inactive |-> inactive_mods, mods |-> o.mods, auto |-> o.auto,
                         cycle |-> o.cycle, residue |-> o.residue,
                         dropped |-> o.dropped, forced |-> o.forced,
                         returned |-> ~o.diverged]
        /\ IF active_mods = <<>> \/ o.diverged
           THEN UNCHANGED <<active_mods, inactive_mods, load_order, errors, warnings>>
           ELSE /\ active_mods' = o.active
                /\ inactive_mods' = o.inactive
                /\ load_order' = [m \in DOMAIN load_order |->
                       IF m \in Range(o.active) THEN IndexOf(o.active, m) ELSE load_order[m]]
                /\ errors' = ErrorsAfter(mod_map, o.active, errors)
                /\ warnings' = WarningsAfter(mod_map, o.active, warnings)
        /\ UNCHANGED <<mod_map, cacheVars, toggleVars, presetVars, lifeVars, parVars, idVars>>

\* no preset file: a saved preset always has its Vanilla child
NoPreset == <<>>

NoPresetHist == [saved_active |-> None]

PresetIdle ==
    /\ loaded_mods_raw = <<>>
    /\ preset_file = NoPreset
    /\ preset_hist = NoPresetHist

LifeIdle == toggled = <<>> /\ running = TRUE /\ config_player = <<>> /\ torn = {}

ParIdle ==
    /\ par_files = <<>>
    /\ par_pc = <<>>
    /\ par_lock = <<>>
    /\ par_writes = {}
    /\ par_unit = <<>>

IdIdle ==
    /\ id_tree = <<>> /\ id_pc = "done" /\ id_stack = <<>>
    /\ id_unit = [add_id |-> {}, override_id |-> {}] /\ id_emits = {}
    /\ id_applied = <<>>

CacheIdle ==
    /\ files = [filelist |-> NoFile, metadata |-> NoFile]
    /\ cache_data = <<>>
    /\ is_dirty = FALSE
    /\ cache_file = NoCacheFile
    /\ scan = ScanIdle
    /\ cache_hist = NoCacheHist

ToggleIdle ==
    /\ filelist = <<>>
    /\ modparts = <<>>
    /\ disk = [n \in FileNames |-> "none"]
    /\ xml_file = <<>>
    /\ toggle_hist = NoToggleHist

\* the state after a scan: any dependency declarations within the bound, any
\* active list
InitSort ==
    /\ \E D \in SubsetsUpTo(SortDepMenu, MaxDeps), soft \in SoftMenu :
           mod_map = MakeModMap(D, soft)
    /\ active_mods \in ActiveLists
    /\ inactive_mods = SeqOf(ModIds \ Range(active_mods))
    /\ load_order = [m \in ModIds |->
           IF m \in Range(active_mods) THEN IndexOf(active_mods, m) ELSE NoOrder]
    /\ errors = [m \in ModIds |-> <<>>]
    /\ warnings = [m \in ModIds |-> <<>>]
    /\ last_call = NoCall
    /\ CacheIdle
    /\ ToggleIdle
    /\ PresetIdle
    /\ LifeIdle
    /\ ParIdle
    /\ IdIdle

NextSort == SortCall

SpecSort == InitSort /\ [][NextSort]_vars

\* C40: a sort called right after a sort that returned leaves the active
\* list and the load orders as the first call left them, also when the first
\* call had to break a cycle.
C40_SortIdempotent ==
    [][(last_call.op = "sort" /\ last_call.returned /\ last_call'.op = "sort") =>
          (active_mods' = active_mods /\ load_order' = load_order)]_vars

(***************************************************************************)
(* SpecSortWide: sort on five packages, all active, c first in the list.   *)
(* a and b override what the other adds, d and e likewise (two cycles of   *)
(* soft edges), or a, b and c override in a ring; the requirement and      *)
(* patch records are drawn from a small menu.                              *)
(***************************************************************************)
MaxWideDeps == 2

WideIds == {"a", "b", "c", "d", "e"}

WideNames ==
    [m \in WideIds |-> CASE m = "a" -> NameCore [] m = "b" -> NameSub [] m = "c" -> NameZeta
                          [] m = "d" -> <<"V", "o", "l", "t">> [] OTHER -> <<"W", "a", "v", "e">>]

WideDepMenu ==
    { [src |-> "a", dep |-> Dep("c", "requirement", NoCond, EmptyAttrs)],
      [src |-> "c", dep |-> Dep("d", "requirement", NoCond, EmptyAttrs)],
      [src |-> "c", dep |-> Dep("e", "patch", NoCond, EmptyAttrs)],
      [src |-> "d", dep |-> Dep("c", "requirement", NoCond, EmptyAttrs)] }

WideSoftMenu ==
    { \* a and b override each other's identifier, and so do d and e
      [add_id |-> [m \in WideIds |-> CASE m = "a" -> {"i1"} [] m = "b" -> {"i2"}
                                       [] m = "d" -> {"i4"} [] m = "e" -> {"i5"} [] OTHER -> {}],
       override_id |-> [m \in WideIds |-> CASE m = "a" -> {"i2"} [] m = "b" -> {"i1"}
                                            [] m = "d" -> {"i5"} [] m = "e" -> {"i4"} [] OTHER -> {}]],
      \* a overrides what b adds, b what c adds, c what a adds
      [add_id |-> [m \in WideIds |-> CASE m = "a" -> {"i1"} [] m = "b" -> {"i2"}
                                       [] m = "c" -> {"i3"} [] OTHER -> {}],
       override_id |-> [m \in WideIds |-> CASE m = "a" -> {"i2"} [] m = "b" -> {"i3"}
                                            [] m = "c" -> {"i1"} [] OTHER -> {}]] }

InitSortWide ==
    /\ \E D \in SubsetsUpTo(WideDepMenu, MaxWideDeps), soft \in WideSoftMenu :
           mod_map = [m \in WideIds |->
                        [name |-> WideNames[m], deps |-> DepsOf(D, m),
                         add_id |-> soft.add_id[m], override_id |-> soft.override_id[m],
                         settings |-> NoSettings,
                         meta_errors |-> <<>>, meta_warnings |-> <<>>]]
    /\ active_mods \in {<<"c">> \o q : q \in Perms(WideIds \ {"c"})}
    /\ inactive_mods = <<>>
    /\ load_order = [m \in WideIds |-> IndexOf(active_mods, m)]
    /\ errors = [m \in WideIds |-> <<>>]
    /\ warnings = [m \in WideIds |-> <<>>]
    /\ last_call = NoCall
    /\ CacheIdle
    /\ ToggleIdle
    /\ PresetIdle
    /\ LifeIdle
    /\ ParIdle
    /\ IdIdle

NextSortWide == SortCall

SpecSortWide == InitSortWide /\ [][NextSortWide]_vars


(***************************************************************************)
(* Claims about ModManager.sort                                            *)
(***************************************************************************)
RECURSIVE Acyclic(_, _)
\* no cycle among the edges E (pairs <<from, to>>) restricted to nodes
Acyclic(nodes, E) ==
    \/ nodes = {}
    \/ \E n \in nodes :
          /\ \A t \in nodes : <<n, t>> \notin E
          /\ Acyclic(nodes \ {n}, E)

\* the graph the last sort built, from the list it worked on
SortEdges == {e \in Range(last_call.mods) \X Range(last_call.mods) :
                 e[2] \in Dependencies(mod_map, last_call.mods)[e[1]]}
SortHardEdges == HardEdges(mod_map, last_call.mods)
Sorted == last_call.op = "sort"

\* C1: sort terminates, and the resulting active list holds every package
\* that was active before the call and every package the call
\* auto-activated, each exactly once.
C1_SortEmitsAllOnce ==
    Sorted =>
        /\ last_call.returned
        /\ NoDup(active_mods)
        /\ Range(active_mods) = Range(last_call.pre_active) \cup last_call.auto

\* a sort that auto-activated a package and had to force a hard cycle
C1_Witness ==
    /\ Sorted
    /\ last_call.auto # {}
    /\ last_call.forced # <<>>
    /\ \E e \in SortHardEdges : e[1] # e[2] /\ <<e[2], e[1]>> \in SortHardEdges

\* C2: when the edges among the active packages are hard edges only and
\* acyclic, every package comes strictly after each of its hard-edge targets.
C2_TopologicalOnHardDag ==
    (/\ Sorted
     /\ SortEdges = SortHardEdges
     /\ Acyclic(Range(last_call.mods), SortHardEdges))
    => \A e \in SortHardEdges : Before(active_mods, e[2], e[1])

\* a sort of a chain of two hard edges that the order before the call violated
C2_Witness ==
    /\ Sorted
    /\ SortEdges = SortHardEdges
    /\ Acyclic(Range(last_call.mods), SortHardEdges)
    /\ Cardinality(SortHardEdges) >= 2
    /\ \E e \in SortHardEdges : Before(last_call.pre_active, e[1], e[2])
    /\ \E e, f \in SortHardEdges : e[2] = f[1]

\* A is active before the sort and declares an unconditional requirement or
\* patch dependency on B, which is known and inactive
RequiresInactive(A, B) ==
    /\ A \in Range(last_call.pre_active)
    /\ B \in Range(last_call.pre_inactive)
    /\ \E dep \in Range(mod_map[A].deps) :
          dep.id = B /\ dep.type \in {"requirement", "patch"} /\ dep.condition = NoCond

C14_ActiveSetClosed ==
    (Sorted /\ last_call.returned) =>
        \A A \in Range(active_mods) : \A dep \in Range(mod_map[A].deps) :
            (/\ dep.type \in {"requirement", "patch"}
             /\ dep.id \in ModIds
             /\ ~CondFails(dep, Range(active_mods)))
            => dep.id \in Range(active_mods)

\* C15 as claimed: sort auto-activates no package that a package active
\* before the call declares a conflict dependency on.
C15_NoBannedAutoActivation ==
    Sorted => \A B \in last_call.auto :
        ~\E A \in Range(last_call.pre_active) : \E dep \in Range(mod_map[A].deps) :
            dep.type = "conflict" /\ dep.id = B

\* C16 as claimed: when the hard edges among the active packages are acyclic,
\* every package comes after each of its hard-edge targets, whatever cycles
\* the soft edges close.
C16_HardEdgesKeptOnHardDag ==
    (/\ Sorted
     /\ last_call.returned
     /\ Acyclic(Range(last_call.mods), SortHardEdges))
    => \A e \in SortHardEdges : Before(active_mods, e[2], e[1])

\* C17 as claimed: every execution of sort from the lists and data the last
\* call started from ends with the order that call produced.
C17_SortDeterministic ==
    Sorted => \A o \in SortOutcomes(mod_map, last_call.pre_active, last_call.pre_inactive) :
        o.active = active_mods

\* the edges the order of the last sort does not respect
ViolatedEdges == {e \in SortEdges : ~Before(active_mods, e[2], e[1])}

\* C18 as claimed: when the sort dropped an edge or returned an order that
\* breaks one, the call reported a cycle, and the count it reported is the
\* number of edges dropped or broken.
C18_BrokenEdgesCounted ==
    (Sorted /\ last_call.returned /\ last_call.dropped \cup ViolatedEdges # {}) =>
        /\ last_call.cycle
        /\ last_call.residue = Cardinality(last_call.dropped \cup ViolatedEdges)

\* the packages the last sort found without any edge to another package
InDegreeZero == {m \in Range(last_call.mods) :
                    Dependencies(mod_map, last_call.mods)[m] = {}}

\* C26: sort emits the packages of in-degree zero in the relative order
\* they had in the active list before the call; a sort that finds no edge
\* and auto-activates nothing leaves the order of the list unchanged.
C26_ManualOrderKept ==
    (Sorted /\ last_call.returned) =>
        /\ \A u, v \in InDegreeZero \cap Range(last_call.pre_active) :
              Before(last_call.pre_active, u, v) => Before(active_mods, u, v)
        /\ (SortEdges = {} /\ last_call.auto = {}) => active_mods = last_call.pre_active

\* a sort of three packages, with an edge, that moved the package holding the
\* edge behind two packages of in-degree zero whose order it kept
C26_Witness ==
    /\ Sorted
    /\ last_call.returned
    /\ Len(active_mods) = 3
    /\ active_mods # last_call.pre_active
    /\ \E u, v \in InDegreeZero : u # v /\ Before(last_call.pre_active, u, v)
                                  /\ Before(active_mods, u, v)

RECURSIVE ReachSet(_, _)
\* the packages reached from the set S along the edges E
ReachSet(S, E) ==
    LET T == S \cup {e[2] : e \in {x \in E : x[1] \in S}}
    IN  IF T = S THEN S ELSE ReachSet(T, E)

\* the edge e lies on a cycle of the graph the last sort built
OnCycle(e) == e[1] \in ReachSet({e[2]}, SortEdges)

\* C27 as claimed: when the graph has a cycle and no hard edge lies on any
\* cycle, the soft-dropping phase resolves it: every package is emitted, the
\* forced phase emits nothing, and no hard edge is broken.
C27_SoftCycleResolvedSoftly ==
    (/\ Sorted
     /\ last_call.returned
     /\ \E e \in SortEdges : OnCycle(e)
     /\ \A e \in SortHardEdges : ~OnCycle(e))
    => /\ Range(active_mods) = Range(last_call.mods)
       /\ last_call.forced = <<>>
       /\ \A e \in SortHardEdges : Before(active_mods, e[2], e[1])

\* the name of m holds a compatibility keyword and the name of o
NamedAfter(m, o) ==
    /\ m # o
    /\ \E k \in PatchKeywords : IsSubstring(k, Lower(mod_map[m].name))
    /\ IsSubstring(mod_map[o].name, mod_map[m].name)

\* C28 as claimed: a package whose name holds a compatibility keyword and the
\* name of another sorted package, of whatever length, has an edge to that
\* package, and comes after it when the graph has no cycle.
C28_NameEdgeAnyLength ==
    (Sorted /\ last_call.returned) =>
        \A m, o \in Range(last_call.mods) :
            NamedAfter(m, o) =>
                /\ <<m, o>> \in SortEdges
                /\ Acyclic(Range(last_call.mods), SortEdges) => Before(active_mods, o, m)

\* C28 amended: the same for every such other package whose name is longer
\* than three characters.
C28_NameEdgeLongNames ==
    (Sorted /\ last_call.returned) =>
        \A m, o \in Range(last_call.mods) :
            (NamedAfter(m, o) /\ Len(mod_map[o].name) > 3) =>
                /\ <<m, o>> \in SortEdges
                /\ Acyclic(Range(last_call.mods), SortEdges) => Before(active_mods, o, m)

\* a sort, on a graph without cycle, that moved a package behind the package
\* of four characters it is named after, with no hard edge between them
C28_Witness ==
    /\ Sorted
    /\ last_call.returned
    /\ Acyclic(Range(last_call.mods), SortEdges)
    /\ \E m, o \in Range(last_call.mods) :
          /\ NamedAfter(m, o)
          /\ Len(mod_map[o].name) = 4
          /\ <<m, o>> \notin SortHardEdges
          /\ Before(last_call.pre_active, m, o)
          /\ Before(active_mods, o, m)

\* m overrides an identifier that the other sorted package o adds
OverridesFrom(m, o) ==
    m # o /\ mod_map[m].override_id \cap mod_map[o].add_id # {}

\* an edge from every package that has not opted out to every adder of an
\* identifier it overrides
AdderEdges ==
    {e \in Range(last_call.mods) \X Range(last_call.mods) :
        /\ OverridesFrom(e[1], e[2])
        /\ ~GetBoolSetting(mod_map[e[1]], "IgnoreOverrideCheck")}

\* C29 as claimed: a sorted package that overrides an identifier another
\* sorted package adds, and has not set IgnoreOverrideCheck, has an edge to
\* that adder and, when the graph has no cycle, comes after it; a package that
\* has set IgnoreOverrideCheck gets no edge from its overrides.
C29_OverriderAfterEveryAdder ==
    (Sorted /\ last_call.returned) =>
        \A m, o \in Range(last_call.mods) :
            OverridesFrom(m, o) =>
                IF GetBoolSetting(mod_map[m], "IgnoreOverrideCheck")
                THEN o \notin OverrideTargets(mod_map, m, last_call.mods)
                ELSE /\ <<m, o>> \in SortEdges
                     /\ Acyclic(Range(last_call.mods), SortEdges \cup AdderEdges)
                            => Before(active_mods, o, m)

\* C30: after sort returns on a non-empty active list, the package at
\* position k of the active list has load order k, and the error and warning
\* lists of every active package are the ones process_errors computes for the
\* active list as sorted.
C30_LoadOrderAndErrorsFresh ==
    (Sorted /\ last_call.returned /\ last_call.pre_active # <<>>) =>
        /\ \A k \in DOMAIN active_mods : load_order[active_mods[k]] = k
        /\ \A m \in Range(active_mods) :
              /\ errors[m] = ModMessages(mod_map, active_mods, m).errors
              /\ warnings[m] = ModMessages(mod_map, active_mods, m).warnings

\* a sort that auto-activated a package, changed the order, and left an active
\* package with an error
C30_Witness ==
    /\ Sorted
    /\ last_call.returned
    /\ last_call.auto # {}
    /\ \E m \in Range(last_call.pre_active) :
          IndexOf(active_mods, m) # IndexOf(last_call.pre_active, m)
    /\ \E m \in Range(active_mods) : errors[m] # <<>>


(***************************************************************************)
(* The specification of process_errors                                     *)
(***************************************************************************)
\* the attribute maps a conflict dependency may carry
ConflictAttrs ==
    { EmptyAttrs,
      [k \in {"level"} |-> "warning"],
      [k \in {"level"} |-> "error"],
      [k \in {"level"} |-> "Warning"],
      [k \in {"message"} |-> "m1"],
      [k \in {"level", "message"} |-> IF k = "level" THEN "warning" ELSE "m1"] }

ErrDepMenu ==
    {[src |-> "a", dep |-> Dep("b", "conflict", NoCond, at)] : at \in ConflictAttrs}
    \cup {[src |-> "b", dep |-> Dep("a", "conflict", NoCond, EmptyAttrs)],
          [src |-> "a", dep |-> Dep("c", "requirement", NoCond, EmptyAttrs)],
          [src |-> "b", dep |-> Dep("c", "requirement", "a", EmptyAttrs)],
          [src |-> "c", dep |-> Dep("a", "patch", "b", EmptyAttrs)],
          [src |-> "c", dep |-> Dep(UnknownId, "requirement", NoCond, EmptyAttrs)],
          [src |-> "b", dep |-> Dep("a", "requiredAnyOrder", NoCond, EmptyAttrs)]}

\* what the <meta> elements of a metadata.xml hold (re-read by
\* ModUnit.update_meta_errors)
MetaMenu ==
    { [errors |-> <<>>, warnings |-> <<>>],
      [errors |-> <<Msg("text", "meta-error", None)>>, warnings |-> <<>>],
      [errors |-> <<>>, warnings |-> <<Msg("text", "meta-warning", None)>>] }

InitErrors ==
    /\ \E D \in SubsetsUpTo(ErrDepMenu, MaxDeps), soft \in SoftMenu, meta \in MetaMenu :
           mod_map = [m \in ModIds |->
               [MakeModMap(D, soft)[m] EXCEPT
                   !.meta_errors = IF m = "a" THEN meta.errors ELSE <<>>,
                   !.meta_warnings = IF m = "a" THEN meta.warnings ELSE <<>>]]
    /\ active_mods \in ActiveLists
    /\ inactive_mods = SeqOf(ModIds \ Range(active_mods))
    /\ load_order = [m \in ModIds |->
           IF m \in Range(active_mods) THEN IndexOf(active_mods, m) ELSE NoOrder]
    /\ errors = [m \in ModIds |-> mod_map[m].meta_errors]
    /\ warnings = [m \in ModIds |-> mod_map[m].meta_warnings]
    /\ last_call = NoCall
    /\ CacheIdle
    /\ ToggleIdle
    /\ PresetIdle
    /\ LifeIdle
    /\ ParIdle
    /\ IdIdle

NextErrors == ProcessErrorsCall

SpecErrors == InitErrors /\ [][NextErrors]_vars

ErrorsComputed == last_call.op = "process_errors"

\* A and B are active and A declares the conflict dependency dep on B
ConflictOn(A, B, dep) ==
    /\ A \in Range(active_mods)
    /\ B \in Range(active_mods)
    /\ dep \in Range(mod_map[A].deps)
    /\ dep.type = "conflict"
    /\ dep.id = B

\* C4 as claimed: after process_errors, a package that declares a conflict
\* on an active package has a non-empty error list, whatever the
\* dependency's attributes.
C4_ConflictGivesError ==
    ErrorsComputed => \A A, B \in ModIds :
        (\E dep \in Range(mod_map[A].deps) : ConflictOn(A, B, dep)) => errors[A] # <<>>

\* C4 amended: after process_errors, the message of a conflict dependency on
\* an active package is in the declaring package's error list, unless the
\* dependency's level attribute is "warning": then it is in its warning list.
C4_ConflictGivesErrorOrWarning ==
    ErrorsComputed => \A A, B \in ModIds :
        \A dep \in Range(mod_map[A].deps) :
            ConflictOn(A, B, dep) =>
                IF "level" \in DOMAIN dep.attributes /\ dep.attributes["level"] = "warning"
                THEN ConflictMessage(dep) \in Range(warnings[A])
                ELSE ConflictMessage(dep) \in Range(errors[A])

\* process_errors has run on two active packages in conflict, the conflict
\* declared without attributes
C4_Witness ==
    /\ ErrorsComputed
    /\ \E A, B \in ModIds : \E dep \in Range(mod_map[A].deps) :
          /\ ConflictOn(A, B, dep)
          /\ dep.attributes = EmptyAttrs
          /\ errors[A] = <<ConflictMessage(dep)>>


\* the mod-unfind-mod error that names the target
UnfoundError(target) == Msg("mod-unfind-mod", target, None)

FirstAdder(B, id) ==
    \E i \in DOMAIN active_mods :
        /\ active_mods[i] = B
        /\ id \in mod_map[B].add_id
        /\ \A j \in 1..(i - 1) : id \notin mod_map[active_mods[j]].add_id

\* C13 as claimed: after process_errors, an active package that overrides an
\* identifier whose first adder in the active order is another package has
\* a warning that names that adder.
C13_OverriderWarnedOfAdder ==
    ErrorsComputed => \A A, B \in Range(active_mods) : \A id \in Identifiers :
        (A # B /\ id \in mod_map[A].override_id /\ FirstAdder(B, id))
        => Msg("mod-override-id", B, id) \in Range(warnings[A])

\* C31: a call of process_errors that follows a call of process_errors, the
\* active list and the metadata being the same, leaves every active package
\* with the error and warning lists it had.
C31_ProcessErrorsIdempotent ==
    [][(last_call.op = "process_errors" /\ last_call'.op = "process_errors") =>
          \A m \in Range(active_mods) :
              errors'[m] = errors[m] /\ warnings'[m] = warnings[m]]_vars

\* the state after a second call in a row: the lists before the call are the
\* lists after it, and a package holds a dependency error on top of the
\* errors of its metadata and an override warning
C31_Witness ==
    /\ last_call.op = "process_errors"
    /\ last_call.pre_errors = errors
    /\ last_call.pre_warnings = warnings
    /\ \E m \in Range(active_mods) : Len(errors[m]) > Len(mod_map[m].meta_errors)
    /\ \E m \in Range(active_mods) : Len(warnings[m]) > Len(mod_map[m].meta_warnings)

(***************************************************************************)
(* The specification of the cache and the scanner's parse step             *)
(***************************************************************************)
SortIdle ==
    /\ mod_map = <<>>
    /\ active_mods = <<>>
    /\ inactive_mods = <<>>
    /\ load_order = <<>>
    /\ errors = <<>>
    /\ warnings = <<>>
    /\ last_call = NoCall

InitCache ==
    /\ files \in [IdentityFiles -> FileValues]
    /\ cache_data = <<>>
    /\ is_dirty = FALSE
    /\ cache_file = NoCacheFile
    /\ scan = ScanIdle
    /\ cache_hist = NoCacheHist
    /\ SortIdle
    /\ ToggleIdle
    /\ PresetIdle
    /\ LifeIdle
    /\ ParIdle
    /\ IdIdle

NextCache ==
    \/ ModifyFile
    \/ ScanStart
    \/ ScanLookup
    \/ ScanBuildFilelist
    \/ ScanBuildMetadata
    \/ ScanStore
    \/ ScanAgain
    \/ Save
    \/ Clear

SpecCache == InitCache /\ [][NextCache]_vars

\* SpecCrash: the scan and the flush with the process killed at any point and
\* started again.

\* What open(_cache_file, "wb") followed by an unfinished pickle.dump leaves on
\* disk: the old contents are gone and no complete pickle has replaced them.
TruncatedPickle == ("truncated" :> [hash |-> <<>>, mod |-> NoMod])

\* CacheManager.init (lines 19-34): the map read from the file, or an empty
\* map when there is no file or pickle.load raises.
CacheManagerInit(file) ==
    IF file.exists /\ file.data # TruncatedPickle THEN file.data ELSE <<>>

\* The process dies during the scan, before save is entered, and is started
\* again: memory is lost, the file is as the last save left it.
CrashInScan ==
    /\ scan.pc # "idle"
    /\ cache_data' = CacheManagerInit(cache_file)
    /\ is_dirty' = FALSE
    /\ scan' = ScanIdle
    /\ cache_hist' = [NoCacheHist EXCEPT !.op = "crash", !.edits = cache_hist.edits]
    /\ UNCHANGED <<files, cache_file, sortVars, toggleVars, presetVars, lifeVars, parVars, idVars>>

\* The process dies inside save (lines 42-43), after open(..., "wb") and
\* before the with-block has closed the file, and is started again.
CrashInSave ==
    /\ scan.pc = "done"
    /\ is_dirty
    /\ cache_file' = [exists |-> TRUE, data |-> TruncatedPickle]
    /\ cache_data' = CacheManagerInit(cache_file')
    /\ is_dirty' = FALSE
    /\ scan' = ScanIdle
    /\ cache_hist' = [NoCacheHist EXCEPT !.op = "crash_in_save", !.edits = cache_hist.edits]
    /\ UNCHANGED <<files, sortVars, toggleVars, presetVars, lifeVars, parVars, idVars>>

NextCrash ==
    \/ NextCache
    \/ CrashInScan
    \/ CrashInSave

SpecCrash == InitCache /\ [][NextCrash]_vars

\* C36: whenever the process dies during a scan or a flush, the cache file is
\* afterwards a complete flush (the last one that succeeded, or the new one) or
\* absent, never a truncated or partly written pickle.
C36_CacheFileNeverPartial ==
    cache_file.exists => cache_file.data # TruncatedPickle

\* the last lookup found an entry for the path, and no identity file has
\* changed since that lookup
LookedUp == cache_hist.lookup \in {"hit", "miss"}

\* C5 as claimed: a lookup returns the stored package exactly when the
\* identity files are what they were at the store; after a modification of
\* either file's bytes it returns nothing.
C5_LookupHitsIffUnchanged ==
    LookedUp => (cache_hist.lookup = "hit" <=> files = cache_hist.stored_files)

\* C6: the fingerprint depends on the two identity files only: a lookup made
\* while the files are what they were at the store recomputes the stored
\* fingerprint and hits, and changing one byte of either file changes the
\* fingerprint.
C6_FingerprintStableAndSensitive ==
    /\ (LookedUp /\ files = cache_hist.stored_files) => cache_hist.lookup = "hit"
    /\ cache_hist.stored =>
           cache_data[Path].hash = ComputeModHash(cache_hist.stored_files)
    /\ cache_hist.edit = "byte" => cache_hist.hash_changed

\* one byte of metadata.xml has just changed, after a store, with both
\* identity files present, and the fingerprint changed
C6_Witness ==
    /\ cache_hist.stored
    /\ cache_hist.edit = "byte"
    /\ cache_hist.hash_changed
    /\ files.filelist = cache_hist.stored_files.filelist
    /\ files.filelist.bytes # <<>>
    /\ files.metadata.exists
    /\ cache_hist.stored_files.metadata.exists

\* C7 as claimed: the snapshot of every cache entry was parsed from
\* identity-file contents that have the entry's fingerprint, whatever file
\* modifications interleave with the scanner's parse-then-store.
C7_EntrySnapshotHasStoredFingerprint ==
    Path \in DOMAIN cache_data =>
        ComputeModHash(ParsedFrom(cache_data[Path].mod)) = cache_data[Path].hash

\* the step just taken is the cache operation op
Did(op) == cache_hist'.op = op /\ vars' # vars

\* the effects of store, flush and lookup; flushed: the values of
\* cache_hist.flush after which a flush must not write
CacheOpEffects(flushed) ==
    /\ Did("store") =>
          /\ cache_data'[Path] = [hash |-> ComputeModHash(files), mod |-> scan.mod]
          /\ is_dirty'
    /\ Did("save_wrote") =>
          /\ is_dirty
          /\ ~is_dirty'
          /\ cache_file' = [exists |-> TRUE, data |-> cache_data]
    /\ Did("save_noop") => ~is_dirty /\ UNCHANGED <<cache_file, is_dirty>>
    /\ Did("lookup") => UNCHANGED is_dirty
    /\ cache_hist.flush \in flushed => ~Did("save_wrote")

Entries == [file : FileNames, kind : {"element", "comment"}]

DirectiveMenu ==
    { [file |-> "F", state |-> "off", cond |-> NoCond],
      [file |-> "F", state |-> "on", cond |-> NoCond],
      [file |-> "G", state |-> "off", cond |-> NoCond],
      [file |-> "G", state |-> "ON", cond |-> "b"] }

RegionValues ==
    [state : {"on", "off", "ON", NoState}, cond : {NoCond, "b"},
     children : SeqsUpTo({"element", "comment", "text"}, MaxChildren)]

\* the manifests: up to two entries, and some with a file named twice
ManifestMenu ==
    {<<>>} \cup {<<e>> : e \in Entries} \cup {<<e, f>> : e, f \in Entries}
    \cup { <<[file |-> "F", kind |-> "element"], [file |-> "G", kind |-> "element"],
             [file |-> "F", kind |-> "element"]>>,
           <<[file |-> "G", kind |-> "element"], [file |-> "F", kind |-> "comment"],
             [file |-> "F", kind |-> "comment"]>>,
           <<[file |-> "F", kind |-> "comment"], [file |-> "G", kind |-> "comment"],
             [file |-> "F", kind |-> "element"]>> }

\* the content files: no region, one region, and some with two regions
XmlFiles ==
    {<<>>} \cup {<<r>> : r \in RegionValues}
    \cup { <<[state |-> "on", cond |-> "b", children |-> <<"element">>],
             [state |-> "on", cond |-> NoCond, children |-> <<"comment">>]>>,
           <<[state |-> "off", cond |-> NoCond, children |-> <<"element">>],
             [state |-> "on", cond |-> "b", children |-> <<"comment">>]>> }

\* the files on disk agree with the manifest
DiskOf(fl) ==
    [n \in FileNames |->
        IF FirstMatch(fl, n) = 0 THEN "none"
        ELSE IF fl[FirstMatch(fl, n)].kind = "element" THEN "xml" ELSE "xml_off"]

\* a few manifests with their directives
ConfigMenu ==
    { [filelist |-> <<>>, modparts |-> <<>>],
      [filelist |-> <<[file |-> "F", kind |-> "element"]>>,
       modparts |-> <<[file |-> "F", state |-> "off", cond |-> NoCond]>>],
      [filelist |-> <<[file |-> "F", kind |-> "comment"]>>,
       modparts |-> <<[file |-> "F", state |-> "on", cond |-> "b"]>>] }

\* a few content files
InlineMenu ==
    { <<>>,
      <<[state |-> "on", cond |-> NoCond, children |-> <<"comment">>]>> }

InitToggle ==
    /\ \/ /\ xml_file \in XmlFiles
          /\ \E c \in ConfigMenu : filelist = c.filelist /\ modparts = c.modparts
       \/ /\ xml_file \in InlineMenu
          /\ filelist \in ManifestMenu
          /\ modparts \in SeqsUpTo(DirectiveMenu, MaxDirectives)
    /\ disk = DiskOf(filelist)
    /\ toggle_hist = NoToggleHist
    /\ SortIdle
    /\ CacheIdle
    /\ PresetIdle
    /\ LifeIdle
    /\ ParIdle
    /\ IdIdle

NextToggle ==
    \/ DoChanges
    \/ RollbackChanges

SpecToggle == InitToggle /\ [][NextToggle]_vars

\* C8 as claimed: a forward toggle that follows a forward toggle with the
\* same active set modifies nothing: it writes no file and renames no file.
C8_SecondForwardChangesNothing ==
    (/\ toggle_hist.prev.op = "forward"
     /\ toggle_hist.last.op = "forward"
     /\ toggle_hist.prev.active_mod_ids = toggle_hist.last.active_mod_ids)
    => ~toggle_hist.last.changed

\* C9 as claimed: after a forward toggle followed by the rollback toggle the
\* content file is what it was before the forward toggle, whatever the
\* state of its regions was and whatever the active set is.
C9_ForwardThenRollbackRestores ==
    (toggle_hist.prev.op = "forward" /\ toggle_hist.last.op = "rollback")
    => xml_file = toggle_hist.prev.pre_xml

\* a child that can be both an element and a comment
Convertible(kind) == kind \in {"element", "comment"}

\* C10 as claimed: after a forward toggle against S, every well-formed region
\* with target state on that has a convertible child has all its convertible
\* children as elements exactly when its condition is absent or true on S.
C10_OnRegionLiveIffCondition ==
    toggle_hist.last.op = "forward" =>
        \A r \in DOMAIN xml_file :
            LET region == xml_file[r]
            IN (/\ region.state # NoState
                /\ TargetIsActive(region.state)
                /\ \E k \in DOMAIN region.children : Convertible(region.children[k]))
               => ((\A k \in DOMAIN region.children :
                        Convertible(region.children[k]) => region.children[k] = "element")
                   <=> (region.cond = NoCond
                        \/ ProcessCondition(region.cond, toggle_hist.last.active_mod_ids)))

\* the directive is acted on in the call that makes the step: in the forward
\* direction its condition is absent or true on the active set of the call
DirectiveApplies(action) ==
    \/ toggle_hist'.last.op = "rollback"
    \/ action.cond = NoCond
    \/ ProcessCondition(action.cond, toggle_hist'.last.active_mod_ids)

\* the liveness the call that makes the step wants for the directive's entry
ShouldBeActive(action) ==
    IF toggle_hist'.last.op = "rollback" THEN ~TargetIsActive(action.state)
    ELSE TargetIsActive(action.state)

\* C32 as claimed: a toggler call makes the manifest entry of every directive
\* it acts on agree with the desired state, when no other directive names the
\* same file: a commented entry that must be live becomes its own element
\* and its file goes from .xml_off to .xml; a live entry that must be
\* disabled becomes its comment and its file goes from .xml to .xml_off.
C32_ManifestEntryFollowsDirective ==
    [][\A n \in DOMAIN modparts :
          LET action == modparts[n]
              i == FirstMatch(filelist, action.file)
          IN (/\ DirectiveApplies(action)
              /\ \A k \in DOMAIN modparts : modparts[k].file = action.file => k = n
              /\ i # 0)
             => IF ShouldBeActive(action)
                THEN /\ filelist'[i] = [file |-> action.file, kind |-> "element"]
                     /\ (filelist[i].kind = "comment" /\ disk[action.file] = "xml_off")
                            => disk'[action.file] = "xml"
                ELSE /\ filelist'[i] = [file |-> action.file, kind |-> "comment"]
                     /\ (filelist[i].kind = "element" /\ disk[action.file] = "xml")
                            => disk'[action.file] = "xml_off"]_vars

\* the region carries a condition that is false on the active set of the last
\* toggler call
CondFalse(region) ==
    region.cond # NoCond /\ ~ProcessCondition(region.cond, toggle_hist.last.active_mod_ids)

\* C33: a forward toggle leaves every region whose condition is present and
\* false as it was, whatever its children are, and does not save the file
\* when no other region changed.
C33_FalseConditionSkipsRegion ==
    toggle_hist.last.op = "forward" =>
        /\ \A r \in DOMAIN xml_file :
              CondFalse(toggle_hist.last.pre_xml[r]) => xml_file[r] = toggle_hist.last.pre_xml[r]
        /\ (\A r \in DOMAIN xml_file :
               ~CondFalse(toggle_hist.last.pre_xml[r]) => xml_file[r] = toggle_hist.last.pre_xml[r])
           => ~toggle_hist.last.xml_saved

\* a forward toggle that saved the file for one region and skipped another
\* region, target on with a commented child, whose condition was false
C33_Witness ==
    /\ toggle_hist.last.op = "forward"
    /\ toggle_hist.last.xml_saved
    /\ \E r \in DOMAIN xml_file :
          /\ CondFalse(xml_file[r])
          /\ TargetIsActive(xml_file[r].state)
          /\ "comment" \in Range(xml_file[r].children)
          /\ xml_file[r] = toggle_hist.last.pre_xml[r]

\* C34 as claimed: after a rollback every convertible child of every
\* well-formed region is an element when the target state is off and a
\* comment when it is on, whatever the condition; and a rollback that follows
\* a rollback changes nothing.
C34_RollbackNegatesTarget ==
    toggle_hist.last.op = "rollback" =>
        /\ \A r \in DOMAIN xml_file :
              LET region == xml_file[r]
              IN region.state # NoState =>
                    \A k \in DOMAIN region.children :
                        Convertible(region.children[k]) =>
                            region.children[k] =
                                IF TargetIsActive(region.state) THEN "comment" ELSE "element"
        /\ toggle_hist.prev.op = "rollback" => ~toggle_hist.last.changed


(***************************************************************************)
(* ModManager.load_mods (deduplication), save_preset and load_preset       *)
(***************************************************************************)

\* the longest list of packages a scan returns
MaxRaw == 3

Names == {"N", "M"}

\* the steamworkshopid attribute of filelist.xml; None when it is absent
SteamIds == {None, "1"}

\* a ModUnit as the scan builds it; path is the directory it was built from
Unit(name, steam_id, local, path) ==
    [name |-> name, steam_id |-> steam_id, local |-> local, path |-> path]

\* no package: what dict.get and next(..., None) return for a miss
NoUnit == Unit(None, None, FALSE, 0)

\* Identifier.id
IdOf(m) == IF m.steam_id # None THEN m.steam_id ELSE m.name

\* loaded_mods_raw: one unit per scanned directory, in scan order
RawMenu ==
    UNION { { [i \in 1..n |-> Unit(k[i].name, k[i].steam_id, k[i].local, i)] :
                k \in [1..n -> [name : Names, steam_id : SteamIds, local : BOOLEAN]] } :
            n \in 1..MaxRaw }

\* the keys of grouped_by_name, in insertion order
GroupNames(raw) ==
    LET first == SelectSeq([i \in DOMAIN raw |-> i],
                           LAMBDA i : \A j \in 1..(i - 1) : raw[j].name # raw[i].name)
    IN  [i \in DOMAIN first |-> raw[first[i]].name]

\* grouped_by_name[name]
Group(raw, name) == SelectSeq(raw, LAMBDA m : m.name = name)

\* the first copy of the group, whatever its origin
SelectedModFirst(group) == group[1]

\* lines 229-250: the copy of a name group that is kept
SelectedMod(group) ==
    LET mods_with_steam == SelectSeq(group, LAMBDA m : m.steam_id # None)
        mods_without_steam == SelectSeq(group, LAMBDA m : m.steam_id = None)
        locals == SelectSeq(mods_with_steam, LAMBDA m : m.local)
    IN  IF Len(group) = 1 THEN group[1]
        ELSE IF mods_with_steam # <<>> /\ mods_without_steam # <<>> THEN mods_with_steam[1]
        ELSE IF Len(mods_with_steam) > 1
             THEN IF locals # <<>> THEN locals[1] ELSE mods_with_steam[1]
        ELSE group[1]

\* lines 226-253: unique_mods_list
UniqueModsList(raw) ==
    LET names == GroupNames(raw)
    IN  [i \in DOMAIN names |-> SelectedMod(Group(raw, names[i]))]

\* _mod_map[mod.id] = mod on a dict kept as the sequence of its values: a
\* key already present keeps its place and takes the new value
DictPut(map, m) ==
    IF \E i \in DOMAIN map : IdOf(map[i]) = IdOf(m)
    THEN [i \in DOMAIN map |-> IF IdOf(map[i]) = IdOf(m) THEN m ELSE map[i]]
    ELSE Append(map, m)

RECURSIVE FillModMap(_, _, _)
\* lines 255-256
FillModMap(map, unique, i) ==
    IF i > Len(unique) THEN map
    ELSE FillModMap(DictPut(map, unique[i]), unique, i + 1)

\* the ids of _mod_map, in the order of its values
MapIds(map) == [i \in DOMAIN map |-> IdOf(map[i])]

\* ModManager.get_mod_by_id
GetModById(map, mod_id) ==
    IF \E i \in DOMAIN map : IdOf(map[i]) = mod_id
    THEN map[CHOOSE i \in DOMAIN map : IdOf(map[i]) = mod_id]
    ELSE NoUnit

RECURSIVE InjectiveSeqs(_)
\* the sequences without repetition over S
InjectiveSeqs(S) ==
    {<<>>} \cup UNION { {<<x>> \o t : t \in InjectiveSeqs(S \ {x})} : x \in S }

\* ModManager.load_mods from the scan's result; active_mod_configs is the
\* list of the known ids config_player.xml names, its position the load
\* order (an id it names that is not known activates nothing)
LoadMods ==
    \E unique_mods_list \in {UniqueModsList(loaded_mods_raw)} :
    \E map \in {FillModMap(<<>>, unique_mods_list, 1)} :
    \E ids \in {MapIds(map)} :
        \E active_mod_configs \in InjectiveSeqs(Range(ids)) :
            /\ mod_map' = map
            \* lines 258-263; a unit the cache returned is the object of the
            \* scan before and keeps the load_order it had
            /\ load_order' = [id \in Range(ids) |->
                                IF id \in Range(active_mod_configs)
                                THEN IndexOf(active_mod_configs, id)
                                ELSE IF id \in DOMAIN load_order THEN load_order[id]
                                ELSE NoOrder]
            \* the active ones, sorted by load_order
            /\ active_mods' = active_mod_configs
            /\ inactive_mods' = SelectSeq(ids, LAMBDA id : id \notin Range(active_mod_configs))
            /\ last_call' = [op |-> "load_mods", unique |-> unique_mods_list]
            /\ UNCHANGED <<errors, warnings, presetVars, cacheVars, toggleVars, lifeVars, parVars, idVars>>

Vanilla == <<"V", "a", "n", "i", "l", "l", "a">>
Workshop == <<"W", "o", "r", "k", "s", "h", "o", "p">>
Local == <<"L", "o", "c", "a", "l">>

\* XMLElement(tag, attributes)
XMLElement(tag, attributes) == [tag |-> tag, attributes |-> attributes]

\* a Workshop node whose id is the steam id alone
PresetNodeSteamOnly(mod) ==
    IF mod.local
    THEN XMLElement(Local, [name |-> mod.name])
    ELSE XMLElement(Workshop, [name |-> mod.name, id |-> mod.steam_id])

\* lines 163-169: the node save_preset writes for an active package
PresetNode(mod) ==
    IF mod.local
    THEN XMLElement(Local, [name |-> mod.name])
    ELSE XMLElement(Workshop, [name |-> mod.name,
                               id |-> IF mod.steam_id # None THEN mod.steam_id ELSE IdOf(mod)])

\* ModManager.save_preset, the file being written
SavePreset ==
    /\ preset_file' = <<XMLElement(Vanilla, <<>>)>>
                      \o [i \in DOMAIN active_mods |-> PresetNode(GetModById(mod_map, active_mods[i]))]
    /\ preset_hist' = [saved_active |-> active_mods]
    /\ last_call' = [op |-> "save_preset"]
    /\ UNCHANGED <<mod_map, active_mods, inactive_mods, load_order, errors, warnings,
                   loaded_mods_raw, cacheVars, toggleVars, lifeVars, parVars, idVars>>

\* XMLElement.iter_non_comment_childrens of the loaded preset
IterNonCommentChildrens(childrens) == SelectSeq(childrens, LAMBDA node : node.tag # "#comment")

\* lines 105-107: local_mods_by_name.get(name); a later package of the same
\* name replaces an earlier one
LocalModsByName(map, name) ==
    LET hits == SelectSeq(map, LAMBDA m : m.local /\ m.name = name)
    IN  IF hits = <<>> THEN NoUnit ELSE hits[Len(hits)]

\* lines 124-128: the package a Local node names
LocalLookup(map, l_name) ==
    LET by_name == SelectSeq(map, LAMBDA m : m.name = l_name)
    IN  IF LocalModsByName(map, l_name) # NoUnit THEN LocalModsByName(map, l_name)
        ELSE IF by_name # <<>> THEN by_name[1] ELSE NoUnit

RECURSIVE PresetLoop(_, _, _, _)
\* lines 109-134: st holds new_active_mods (as ids) and missing_mods
PresetLoop(nodes, map, i, st) ==
    IF i > Len(nodes) THEN st
    ELSE LET node == nodes[i]
             tag == Lower(node.tag)
             w_id == AttrGet(node.attributes, "id", None)
             l_name == AttrGet(node.attributes, "name", None)
             mod_to_add == IF tag = Lower(Workshop) THEN GetModById(map, w_id)
                           ELSE IF tag = Lower(Local) THEN LocalLookup(map, l_name)
                           ELSE NoUnit
             named == tag = Lower(Workshop) \/ tag = Lower(Local)
             missing == IF named /\ mod_to_add = NoUnit
                        THEN Append(st.missing, AttrGet(node.attributes, "name", <<"ID: ", w_id>>))
                        ELSE st.missing
             active == IF mod_to_add # NoUnit /\ IdOf(mod_to_add) \notin Range(st.active)
                       THEN Append(st.active, IdOf(mod_to_add))
                       ELSE st.active
         IN  PresetLoop(nodes, map, i + 1, [active |-> active, missing |-> missing])

\* ModManager.load_preset
LoadPreset ==
    /\ IF preset_file = NoPreset
       THEN /\ last_call' = [op |-> "load_preset", ok |-> FALSE, missing |-> <<>>,
                             pre_active |-> active_mods]
            /\ UNCHANGED <<active_mods, inactive_mods, load_order>>
       ELSE LET st == PresetLoop(IterNonCommentChildrens(preset_file), mod_map, 1,
                                 [active |-> <<>>, missing |-> <<>>])
                ids == MapIds(mod_map)
            IN  /\ active_mods' = st.active
                /\ inactive_mods' = SelectSeq(ids, LAMBDA id : id \notin Range(st.active))
                /\ load_order' = [id \in DOMAIN load_order |->
                                    IF id \in Range(st.active) THEN IndexOf(st.active, id)
                                    ELSE load_order[id]]
                /\ last_call' = [op |-> "load_preset", ok |-> TRUE, missing |-> st.missing,
                                 pre_active |-> active_mods]
    /\ UNCHANGED <<mod_map, errors, warnings, presetVars, cacheVars, toggleVars, lifeVars, parVars, idVars>>

InitLoad ==
    /\ loaded_mods_raw \in RawMenu
    /\ preset_file = NoPreset
    /\ preset_hist = NoPresetHist
    /\ mod_map = <<>>
    /\ active_mods = <<>>
    /\ inactive_mods = <<>>
    /\ load_order = <<>>
    /\ errors = <<>>
    /\ warnings = <<>>
    /\ last_call = NoCall
    /\ CacheIdle
    /\ ToggleIdle
    /\ LifeIdle
    /\ ParIdle
    /\ IdIdle

NextLoad ==
    \/ LoadMods
    \/ SavePreset
    \/ LoadPreset

SpecLoad == InitLoad /\ [][NextLoad]_vars

\* the copies of a name that the scan returned
Copies(name) == Group(loaded_mods_raw, name)

\* the copies of a name that carry a platform id
Remote(name) == SelectSeq(Copies(name), LAMBDA m : m.steam_id # None)

C20_PresetRoundTrip ==
    (last_call.op = "load_preset" /\ last_call.ok) =>
        /\ active_mods = preset_hist.saved_active
        /\ last_call.missing = <<>>
        /\ Range(inactive_mods) = Range(MapIds(mod_map)) \ Range(active_mods)
        /\ NoDup(inactive_mods)

\* C23 as claimed: every package in the inactive list has a null load order.
C23_InactiveHasNoLoadOrder ==
    \A id \in Range(inactive_mods) : load_order[id] = NoOrder

\* a preset of two packages, one local and one not local and without a
\* platform id, was loaded over a different active list
C20_Witness ==
    /\ last_call.op = "load_preset"
    /\ last_call.ok
    /\ Len(active_mods) = 2
    /\ last_call.pre_active # active_mods
    /\ \E m \in Range(mod_map) : IdOf(m) \in Range(active_mods) /\ m.local
    /\ \E m \in Range(mod_map) :
          IdOf(m) \in Range(active_mods) /\ ~m.local /\ m.steam_id = None


(***************************************************************************)
(* The toggler over the tool's run: activate_mod, deactivate_mod,          *)
(* save_mods and _on_exit                                                   *)
(***************************************************************************)

\* what the toggler needs of a package: ModUnit.has_toggle_content, and
\* whether PartsManager.do_changes raises on the package's files (the abort
\* of ProcessConfig)
ToggleKinds ==
    { [has_toggle_content |-> FALSE, do_changes_raises |-> FALSE],
      [has_toggle_content |-> TRUE, do_changes_raises |-> FALSE],
      [has_toggle_content |-> TRUE, do_changes_raises |-> TRUE] }

NeverToggled == [m \in ModIds |-> "none"]

\* ModManager.activate_mod
ActivateMod(mod_id) ==
    LET r == ActivateModOn(mod_map, active_mods, inactive_mods, mod_id)
    IN  /\ running
        /\ active_mods' = r.active
        /\ inactive_mods' = r.inactive
        /\ last_call' = [op |-> "activate_mod"]
        /\ UNCHANGED <<mod_map, load_order, errors, warnings, lifeVars,
                       cacheVars, toggleVars, presetVars, parVars, idVars>>

\* ModManager.deactivate_mod
DeactivateMod(mod_id) ==
    LET r == DeactivateModOn(mod_map, active_mods, inactive_mods, mod_id)
    IN  /\ running
        /\ active_mods' = r.active
        /\ inactive_mods' = r.inactive
        /\ last_call' = [op |-> "deactivate_mod"]
        /\ UNCHANGED <<mod_map, load_order, errors, warnings, lifeVars,
                       cacheVars, toggleVars, presetVars, parVars, idVars>>

RECURSIVE SaveModsLoop(_, _, _)
\* lines 447-453: do_chenges raises AttributeError and do_changes runs; an
\* exception of do_changes leaves the loop for the handler of line 466
SaveModsLoop(mods, i, tog) ==
    IF i > Len(mods) THEN [toggled |-> tog, raised |-> FALSE]
    ELSE LET m == mods[i]
         IN  IF ~mod_map[m].has_toggle_content THEN SaveModsLoop(mods, i + 1, tog)
             ELSE IF mod_map[m].do_changes_raises
                  THEN [toggled |-> [tog EXCEPT ![m] = "do_changes"], raised |-> TRUE]
             ELSE SaveModsLoop(mods, i + 1, [tog EXCEPT ![m] = "do_changes"])

\* ModManager.save_mods with the game path and config_player.xml in place;
\* lines 461-464 write the file when the loop has not raised
SaveMods ==
    LET r == SaveModsLoop(active_mods, 1, toggled)
    IN  /\ running
        /\ toggled' = r.toggled
        /\ config_player' = IF r.raised THEN config_player ELSE active_mods
        /\ last_call' = [op |-> "save_mods"]
        /\ UNCHANGED <<mod_map, active_mods, inactive_mods, load_order, errors, warnings,
                       running, torn, cacheVars, toggleVars, presetVars, parVars, idVars>>

\* ModManager._on_exit, run by atexit: rollback_changes_no_thread for the
\* packages active now
OnExit ==
    /\ running
    /\ running' = FALSE
    /\ toggled' = [m \in ModIds |->
                     IF m \in Range(active_mods) /\ mod_map[m].has_toggle_content
                     THEN "rollback" ELSE toggled[m]]
    /\ config_player' = IF active_mods = <<>> THEN config_player ELSE active_mods
    /\ last_call' = [op |-> "_on_exit"]
    /\ UNCHANGED <<mod_map, active_mods, inactive_mods, load_order, errors, warnings,
                   torn, cacheVars, toggleVars, presetVars, parVars, idVars>>

InitLife ==
    /\ mod_map \in [ModIds -> ToggleKinds]
    /\ active_mods = <<>>
    /\ inactive_mods \in Perms(ModIds)
    /\ load_order = <<>>
    /\ errors = <<>>
    /\ warnings = <<>>
    /\ last_call = NoCall
    /\ toggled = NeverToggled
    /\ running = TRUE
    /\ config_player = <<>>
    /\ torn = {}
    /\ CacheIdle
    /\ ToggleIdle
    /\ PresetIdle
    /\ ParIdle
    /\ IdIdle

NextLife ==
    \/ \E mod_id \in ModIds \cup {UnknownId} : ActivateMod(mod_id)
    \/ \E mod_id \in ModIds \cup {UnknownId} : DeactivateMod(mod_id)
    \/ SaveMods
    \/ OnExit

SpecLife == InitLife /\ [][NextLife]_vars

\* SpecKill: the tool's run with the process killed inside one of the file
\* writes of save_mods.

\* XMLBuilder.save(tree, path) cut short: the file at path holds part of the
\* new document.
HalfWritten(path, mod_id) == [name |-> path, mod |-> mod_id]

\* The active packages whose do_changes save_mods reaches and which get as far
\* as the save of their filelist.xml (parts_manager.py 184-185).
FilelistSavers ==
    {active_mods[i] : i \in {j \in DOMAIN active_mods :
        /\ mod_map[active_mods[j]].has_toggle_content
        /\ \A k \in 1..j : ~(mod_map[active_mods[k]].has_toggle_content
                               /\ mod_map[active_mods[k]].do_changes_raises)}}

\* The process dies inside XMLBuilder.save(xml_filelist, filelist_path) of the
\* do_changes call for package m: the path handed to save is the manifest.
KillInFilelistSave(m) ==
    /\ running
    /\ m \in FilelistSavers
    /\ torn' = torn \cup {HalfWritten("filelist.xml", m)}
    /\ toggled' = [x \in DOMAIN toggled |->
                      IF /\ mod_map[x].has_toggle_content
                         /\ \E j, k \in DOMAIN active_mods :
                               j <= k /\ active_mods[j] = x /\ active_mods[k] = m
                      THEN "do_changes" ELSE toggled[x]]
    /\ running' = FALSE
    /\ last_call' = [op |-> "killed"]
    /\ UNCHANGED <<mod_map, active_mods, inactive_mods, load_order, errors, warnings,
                   config_player, cacheVars, toggleVars, presetVars, parVars, idVars>>

\* The process dies inside XMLBuilder.save(xml_obj, temp_path) of line 462:
\* the path handed to save is config_player.tmp, and the replace of line 464
\* has not run.
KillInConfigSave ==
    LET r == SaveModsLoop(active_mods, 1, toggled)
    IN  /\ running
        /\ ~r.raised
        /\ torn' = torn \cup {HalfWritten("config_player.tmp", None)}
        /\ toggled' = r.toggled
        /\ running' = FALSE
        /\ last_call' = [op |-> "killed"]
        /\ UNCHANGED <<mod_map, active_mods, inactive_mods, load_order, errors, warnings,
                       config_player, cacheVars, toggleVars, presetVars, parVars, idVars>>

NextKill ==
    \/ NextLife
    \/ \E m \in ModIds : KillInFilelistSave(m)
    \/ KillInConfigSave

SpecKill == InitLife /\ [][NextKill]_vars

\* C37: the rewrites of config_player.xml and of a package's filelist.xml go
\* through a temporary file that then replaces the target, so a kill of the
\* process leaves neither of them half-written.
C37_ConfigAndManifestReplacedWhole ==
    \A f \in torn : f.name \notin {"config_player.xml", "filelist.xml"}

\* C11 as claimed: a package whose last toggler call is the forward toggle
\* of save_mods is active and the tool is running: deactivation and shutdown
\* each run the rollback for it.
C11_NoForwardToggledOutsideActive ==
    \A m \in ModIds : toggled[m] = "do_changes" => (running /\ m \in Range(active_mods))

\* C22 as claimed: when save_mods returns, the forward toggle has run for
\* every active package with togglable content and config_player.xml lists
\* the active packages, whatever exception a package's file raised.
C22_SaveModsFinishesDespiteFileError ==
    last_call.op = "save_mods" =>
        /\ \A m \in Range(active_mods) :
              mod_map[m].has_toggle_content => toggled[m] = "do_changes"
        /\ config_player = active_mods


-----------------------------------------------------------------------------
\* SpecPar: the worker threads of load_mods.  executor.map runs one
\* _parse_mod_safe per package folder; a cache miss builds the package, and
\* ModUnit._parse_files_concurrently runs one _process_single_xml per XML file
\* of the package on its own pool.  par_writes records every write to an object
\* that outlives one worker, with the thread that made it and whether that
\* thread held the package's _lock.

MaxFiles == 2

Folders == {"P1", "P2"}

FileKinds == {"modparts", "system", "ids", "btm", "ids_btm", "unknown"}

\* What extract_ids returns for a file: the k-th file of a package that holds
\* identifiers adds one of its own and overrides one of its own.
ExtractedIds(t) ==
    IF par_files[t] \in {"ids", "ids_btm"}
    THEN [add_id |-> {<<"add", t.k>>}, override_id |-> {<<"override", t.k>>}]
    ELSE [add_id |-> {}, override_id |-> {}]

\* any(xml_obj.find_only_comments("BTM:*")).
HasBtm(t) == par_files[t] \in {"btm", "ids_btm", "system"}

NoThread == [pool |-> "none", pkg |-> "none", k |-> 0]

ScanThread(p) == [pool |-> "scan", pkg |-> p, k |-> 0]

FileThread(p, k) == [pool |-> "file", pkg |-> p, k |-> k]

ScanThreads == {ScanThread(p) : p \in Folders}

FileThreads == {FileThread(p, k) : p \in Folders, k \in 1..MaxFiles}

Write(obj, owner, t) ==
    [obj |-> obj, owner |-> owner, thread |-> t, locked |-> par_lock[t.pkg] = t]

Goto(t, pc) == par_pc' = [par_pc EXCEPT ![t] = pc]

\* _parse_mod_safe up to the build: a cache hit returns the cached object, a
\* miss starts the package's file workers.
ParseModSafe(t) ==
    /\ t \in ScanThreads
    /\ par_pc[t] = "start"
    /\ \/ Goto(t, "done")
       \/ par_pc' = [u \in DOMAIN par_pc |->
                        IF u = t THEN "build"
                        ELSE IF u.pool = "file" /\ u.pkg = t.pkg THEN "start"
                        ELSE par_pc[u]]
    /\ UNCHANGED <<par_files, par_lock, par_writes, par_unit>>

\* update_cache, once the with-block of _parse_files_concurrently has joined
\* every file worker of the package.
UpdateCache(t) ==
    /\ t \in ScanThreads
    /\ par_pc[t] = "build"
    /\ \A u \in DOMAIN par_pc : (u.pool = "file" /\ u.pkg = t.pkg) => par_pc[u] = "done"
    /\ par_writes' = par_writes \cup {Write("_cache_data", "CacheManager", t),
                                      Write("_is_dirty", "CacheManager", t)}
    /\ Goto(t, "done")
    /\ UNCHANGED <<par_files, par_lock, par_unit>>

\* _process_single_xml up to its first write: modparts.xml goes for the flag,
\* another file named in xml_system_dirs is left alone, any other file is
\* loaded and handed to extract_ids.
ModUnitProcessSingleXml(t) ==
    /\ t \in FileThreads
    /\ par_pc[t] = "start"
    /\ Goto(t, CASE par_files[t] = "modparts" -> "want_flag"
                 [] par_files[t] = "system" -> "done"
                 [] OTHER -> "extract")
    /\ UNCHANGED <<par_files, par_lock, par_writes, par_unit>>

\* extract_ids on the global extractor: _handle_fallback tests an unknown tag
\* against _unknown_tags_cache; the other files go on with what they hold.
ExtractIds(t) ==
    /\ t \in FileThreads
    /\ par_pc[t] = "extract"
    /\ Goto(t, CASE ExtractedIds(t).add_id # {} \/ ExtractedIds(t).override_id # {} ->
                      "want_sets"
                 [] par_files[t] = "unknown"
                      /\ ~\E w \in par_writes : w.obj = "_unknown_tags_cache" -> "add_tag"
                 [] OTHER -> "check_flag")
    /\ UNCHANGED <<par_files, par_lock, par_writes, par_unit>>

\* cache.add(obj.tag) of _handle_fallback.
HandleFallback(t) ==
    /\ t \in FileThreads
    /\ par_pc[t] = "add_tag"
    /\ par_writes' = par_writes \cup {Write("_unknown_tags_cache", "IDExtractor", t)}
    /\ Goto(t, "check_flag")
    /\ UNCHANGED <<par_files, par_lock, par_unit>>

\* if not self.has_toggle_content: read without the lock, then the search for
\* a toggle-marker comment.
CheckToggleContent(t) ==
    /\ t \in FileThreads
    /\ par_pc[t] = "check_flag"
    /\ Goto(t, IF ~par_unit[t.pkg].has_toggle_content /\ HasBtm(t)
               THEN "want_flag" ELSE "done")
    /\ UNCHANGED <<par_files, par_lock, par_writes, par_unit>>

\* with self._lock: entry.
AcquireLock(t) ==
    /\ t \in FileThreads
    /\ par_pc[t] \in {"want_flag", "want_sets"}
    /\ par_lock[t.pkg] = NoThread
    /\ par_lock' = [par_lock EXCEPT ![t.pkg] = t]
    /\ Goto(t, IF par_pc[t] = "want_flag" THEN "in_flag" ELSE "in_sets")
    /\ UNCHANGED <<par_files, par_writes, par_unit>>

\* self.add_id = self.add_id, with the worker's set in place of the union.
UpdateSetsOverwrites(unit, ids) ==
    [unit EXCEPT !.add_id = ids.add_id, !.override_id = ids.override_id]

\* self.add_id.update(...) and self.override_id.update(...).
UpdateSets(unit, ids) ==
    [unit EXCEPT !.add_id = @ \cup ids.add_id,
                 !.override_id = @ \cup ids.override_id]

\* The body of a with self._lock: block and its exit.
LockedWrite(t) ==
    /\ t \in FileThreads
    /\ par_pc[t] \in {"in_flag", "in_sets"}
    /\ par_writes' = par_writes \cup
          (IF par_pc[t] = "in_flag"
           THEN {Write("has_toggle_content", t.pkg, t)}
           ELSE {Write("add_id", t.pkg, t), Write("override_id", t.pkg, t)})
    /\ par_unit' = [par_unit EXCEPT ![t.pkg] =
                        IF par_pc[t] = "in_flag"
                        THEN [@ EXCEPT !.has_toggle_content = TRUE]
                        ELSE UpdateSets(@, ExtractedIds(t))]
    /\ par_lock' = [par_lock EXCEPT ![t.pkg] = NoThread]
    /\ Goto(t, IF par_pc[t] = "in_flag" THEN "done" ELSE "check_flag")
    /\ UNCHANGED par_files

\* cls(name="temp", path=path): the fields the file workers write.
NewModUnit == [add_id |-> {}, override_id |-> {}, has_toggle_content |-> FALSE]

InitPar ==
    /\ par_files \in [FileThreads -> FileKinds \ {"system", "ids_btm"}]
    /\ par_pc = [t \in ScanThreads \cup FileThreads |->
                    IF t.pool = "scan" THEN "start" ELSE "idle"]
    /\ par_lock = [p \in Folders |-> NoThread]
    /\ par_writes = {}
    /\ par_unit = [p \in Folders |-> NewModUnit]
    /\ SortIdle
    /\ CacheIdle
    /\ ToggleIdle
    /\ PresetIdle
    /\ LifeIdle
    /\ IdIdle

ParStep(A(_)) ==
    /\ \E t \in DOMAIN par_pc : A(t)
    /\ UNCHANGED <<sortVars, cacheVars, toggleVars, presetVars, lifeVars, idVars>>

NextPar ==
    \/ ParStep(ParseModSafe)
    \/ ParStep(UpdateCache)
    \/ ParStep(ModUnitProcessSingleXml)
    \/ ParStep(ExtractIds)
    \/ ParStep(HandleFallback)
    \/ ParStep(CheckToggleContent)
    \/ ParStep(AcquireLock)
    \/ ParStep(LockedWrite)

SpecPar == InitPar /\ [][NextPar]_vars

PackageState == {"add_id", "override_id", "has_toggle_content"}

\* C24: an object written by more than one worker thread is one of a single
\* package's add_id, override_id and has_toggle_content, and each of those
\* writes is made holding that package's lock; nothing else (the cache map and
\* its dirty flag, the extractor's unknown-tag record) is written by two
\* workers.
C24_SharedWritesLocked ==
    \A w1, w2 \in par_writes :
        (w1.obj = w2.obj /\ w1.owner = w2.owner /\ w1.thread # w2.thread) =>
            /\ w1.obj \in PackageState
            /\ w1.locked /\ w2.locked

\* SpecBuild: ModUnit.build of one package, its file workers in every
\* interleaving.
BuildFolder == "P1"

BuildThreads == {t \in ScanThreads \cup FileThreads : t.pkg = BuildFolder}

InitBuild ==
    /\ par_files \in [{t \in BuildThreads : t.pool = "file"} -> FileKinds]
    /\ par_pc = [t \in BuildThreads |-> IF t.pool = "scan" THEN "start" ELSE "idle"]
    /\ par_lock = [p \in {BuildFolder} |-> NoThread]
    /\ par_writes = {}
    /\ par_unit = [p \in {BuildFolder} |-> NewModUnit]
    /\ SortIdle
    /\ CacheIdle
    /\ ToggleIdle
    /\ PresetIdle
    /\ LifeIdle
    /\ IdIdle

SpecBuild == InitBuild /\ [][NextPar]_vars

FilesOf(p) == {t \in DOMAIN par_files : t.pkg = p}

Built(p) == FilesOf(p) # {} /\ \A t \in FilesOf(p) : par_pc[t] = "done"

ContentFiles(p) == {t \in FilesOf(p) : par_files[t] \notin {"modparts", "system"}}

\* C35: once every file worker of a package's build has finished, in whatever
\* order the workers ran, the package's add_id is the union of the add sets
\* extracted from its content files, its override_id the union of the
\* extracted override sets, and has_toggle_content is true exactly when the
\* package holds a modparts.xml or a non-system content file with a
\* toggle-marker comment.
C35_BuildCollectsEveryFile ==
    \A p \in DOMAIN par_unit :
        Built(p) =>
            /\ par_unit[p].add_id = UNION {ExtractedIds(t).add_id : t \in ContentFiles(p)}
            /\ par_unit[p].override_id =
                  UNION {ExtractedIds(t).override_id : t \in ContentFiles(p)}
            /\ par_unit[p].has_toggle_content <=>
                  \/ \E t \in FilesOf(p) : par_files[t] = "modparts"
                  \/ \E t \in ContentFiles(p) : HasBtm(t)

C35_Witness ==
    /\ Built(BuildFolder)
    /\ Cardinality(par_unit[BuildFolder].add_id) > 1
    /\ Cardinality(par_unit[BuildFolder].override_id) > 1
    /\ par_unit[BuildFolder].has_toggle_content
    /\ \E w \in par_writes : w.obj = "has_toggle_content" /\ par_files[w.thread] = "ids_btm"


-----------------------------------------------------------------------------
\* SpecIds: one call of extract_ids on a small XML document.  The document is
\* a function from paths (child indices from the root) to nodes; it holds no
\* comments, so iter_non_comment_childrens yields every child.

MaxKids == 2

TreePaths == {<<>>, <<1, 1>>} \cup {<<i>> : i \in 1..MaxKids}

Node(tag, attributes) == [tag |-> tag, attributes |-> attributes]

NodeMenu ==
    { Node("Override", <<>>),
      Node("Items", <<>>),
      Node("Item", [identifier |-> "a"]),
      Node("Item", <<>>),
      Node("Characters", <<>>),
      Node("cprsettings", <<>>),
      Node("sounds", <<>>),
      Node("Foo", [animationtype |-> "Walk"]),
      Node("Foo", <<>>),
      Node("LevelObjects", <<>>),
      Node("Mission", <<>>),
      Node("infotexts", <<>>) }

\* str.lower() on the tags and attribute values of NodeMenu
TagLower(tag) ==
    CASE tag = "Override" -> "override"
      [] tag = "Items" -> "items"
      [] tag = "Item" -> "item"
      [] tag = "Characters" -> "characters"
      [] tag = "Foo" -> "foo"
      [] tag = "Walk" -> "walk"
      [] tag = "LevelObjects" -> "levelobjects"
      [] tag = "Mission" -> "mission"
      [] OTHER -> tag

NoRule == [kind |-> "none", arg |-> None, id_field |-> None]

\* _RULES.get, for the tags of NodeMenu and the contexts they set
RulesGet(key) ==
    CASE key = "override" -> [kind |-> "override", arg |-> None, id_field |-> None]
      [] key \in {"sounds", "infotexts"} -> [kind |-> "ignore", arg |-> None, id_field |-> None]
      [] key = "items" -> [kind |-> "context", arg |-> "item", id_field |-> None]
      [] key = "item" -> [kind |-> "id", arg |-> "item", id_field |-> "identifier"]
      [] key = "characters" -> [kind |-> "context", arg |-> None, id_field |-> None]
      [] key = "cprsettings" -> [kind |-> "special", arg |-> "CPRSettings", id_field |-> None]
      [] key = "levelobjects" -> [kind |-> "context", arg |-> "levelobjects", id_field |-> None]
      [] key = "mission" -> [kind |-> "context", arg |-> "Mission", id_field |-> None]
      [] OTHER -> NoRule

\* The children of a node, first to last.
Kids(path) ==
    LET n == Cardinality({q \in DOMAIN id_tree : Len(q) = Len(path) + 1
                                                 /\ SubSeq(q, 1, Len(path)) = path})
    IN  [i \in 1..n |-> Append(path, i)]

StackItem(path, is_override, ctx) ==
    [path |-> path, is_override |-> is_override, ctx |-> ctx]

Push(stack, path, is_override, ctx) ==
    stack \o [i \in 1..Len(Kids(path)) |-> StackItem(Kids(path)[i], is_override, ctx)]

OverrideRuleKeepsFlag(stack, item) ==
    Push(stack, item.path, item.is_override, item.ctx)

\* _make_override_rule
OverrideRule(stack, item) == Push(stack, item.path, TRUE, item.ctx)

\* _make_context_rule
ContextRule(stack, item, context_type) ==
    Push(stack, item.path, item.is_override,
         IF context_type # None THEN context_type ELSE item.ctx)

FallbackRule == [kind |-> "fallback", arg |-> None, id_field |-> None]

\* A loop that asks the context before the node's own tag.
RuleForContextFirst(item) ==
    IF item.ctx # None /\ RulesGet(item.ctx) # NoRule THEN RulesGet(item.ctx)
    ELSE IF RulesGet(TagLower(id_tree[item.path].tag)) # NoRule
         THEN RulesGet(TagLower(id_tree[item.path].tag))
    ELSE FallbackRule

\* The rule _parse_loop picks for an item: by tag, else by context, else the
\* fallback.
RuleFor(item) ==
    LET rule == RulesGet(TagLower(id_tree[item.path].tag))
    IN  IF rule # NoRule THEN rule
        ELSE IF item.ctx # None /\ RulesGet(item.ctx) # NoRule THEN RulesGet(item.ctx)
        ELSE FallbackRule

\* (unit.override_id if is_override else unit.add_id).add(full_id)
Emit(item, full_id) ==
    LET to == IF item.is_override THEN "override_id" ELSE "add_id"
    IN  /\ id_unit' = [id_unit EXCEPT ![to] = @ \cup {full_id}]
        /\ id_emits' = id_emits \cup {[path |-> item.path, id |-> full_id, to |-> to]}

Top == id_stack[Len(id_stack)]

Popped == SubSeq(id_stack, 1, Len(id_stack) - 1)

\* extract_ids up to the loop: the ignored root tags return an empty unit.
IDExtractorExtractIds ==
    /\ id_pc = "call"
    /\ IF TagLower(id_tree[<<>>].tag) \in {"infotext", "infotexts", "contentpackage", "english"}
       THEN id_pc' = "done" /\ UNCHANGED id_stack
       ELSE id_pc' = "loop" /\ id_stack' = <<StackItem(<<>>, FALSE, None)>>
    /\ UNCHANGED <<id_tree, id_unit, id_emits, id_applied>>

\* One iteration of the while loop of _parse_loop.
ParseLoop ==
    /\ id_pc = "loop"
    /\ id_stack # <<>>
    /\ LET item == Top
           obj == id_tree[item.path]
           rule == RuleFor(item)
       IN  CASE rule.kind = "override" ->
                   /\ id_stack' = OverrideRule(Popped, item)
                   /\ UNCHANGED <<id_unit, id_emits>>
             [] rule.kind = "context" ->
                   /\ id_stack' = ContextRule(Popped, item, rule.arg)
                   /\ UNCHANGED <<id_unit, id_emits>>
             [] rule.kind = "ignore" ->
                   /\ id_stack' = Popped
                   /\ UNCHANGED <<id_unit, id_emits>>
             [] rule.kind = "id" ->
                   /\ id_stack' = Popped
                   /\ Emit(item, <<rule.arg, AttrGet(obj.attributes, rule.id_field, obj.tag)>>)
             [] rule.kind = "special" ->
                   /\ id_stack' = Popped
                   /\ Emit(item, <<rule.arg>>)
             [] rule.kind = "fallback" ->
                   /\ id_stack' = Popped
                   /\ IF TagLower(AttrGet(obj.attributes, "animationtype", None))
                            \in {"walk", "run", "crouch"}
                      THEN Emit(item, <<"GroundAnimation", obj.tag>>)
                      ELSE UNCHANGED <<id_unit, id_emits>>
    /\ id_applied' = (Top.path :> [ctx |-> Top.ctx, rule |-> RuleFor(Top)]) @@ id_applied
    /\ UNCHANGED <<id_tree, id_pc>>

\* The loop ends on an empty stack and extract_ids returns the unit.
ParseLoopEnd ==
    /\ id_pc = "loop"
    /\ id_stack = <<>>
    /\ id_pc' = "done"
    /\ UNCHANGED <<id_tree, id_stack, id_unit, id_emits, id_applied>>

InitIds ==
    /\ id_tree \in [TreePaths -> NodeMenu]
    /\ id_pc = "call"
    /\ id_stack = <<>>
    /\ id_unit = [add_id |-> {}, override_id |-> {}]
    /\ id_emits = {}
    /\ id_applied = <<>>
    /\ SortIdle
    /\ CacheIdle
    /\ ToggleIdle
    /\ PresetIdle
    /\ LifeIdle
    /\ ParIdle

NextIds ==
    /\ \/ IDExtractorExtractIds
       \/ ParseLoop
       \/ ParseLoopEnd
    /\ UNCHANGED <<sortVars, cacheVars, toggleVars, presetVars, lifeVars, parVars>>

SpecIds == InitIds /\ [][NextIds]_vars

UnderOverride(path) ==
    \E k \in 0..(Len(path) - 1) :
        TagLower(id_tree[SubSeq(path, 1, k)].tag) = "override"

\* C25: every identifier a node emits goes to override_id, and is not sent to
\* add_id, when the node has an override ancestor, and goes to add_id when it
\* has none.
C25_OverrideFlagSticks ==
    \A e \in id_emits :
        IF UnderOverride(e.path)
        THEN e.to = "override_id" /\ e.id \in id_unit.override_id
        ELSE e.to = "add_id" /\ e.id \in id_unit.add_id

\* A finished call in which a node below an override node emitted, through the
\* rule of its context, an identifier that went to override_id, and a node
\* outside any override emitted one that went to add_id.
C25_Witness ==
    /\ id_pc = "done"
    /\ \E e \in id_emits : /\ UnderOverride(e.path)
                           /\ id_tree[e.path].tag = "Foo"
                           /\ e.id = <<"item", "Foo">>
                           /\ e.id \in id_unit.override_id
    /\ \E e \in id_emits : ~UnderOverride(e.path) /\ e.id \in id_unit.add_id

ProperAncestors(path) == {SubSeq(path, 1, k) : k \in 0..(Len(path) - 1)}

AnimationIds(tag) == {<<"GroundAnimation", tag>>, <<"WaterAnimation", tag>>}

\* C38: the rule applied to a node is the rule of its own lowercase tag when
\* the table has one; otherwise the rule registered under the context the
\* node was pushed with, when there is a context and the table has a rule for
\* it; otherwise the fallback.  A node handled by the fallback emits at most
\* one identifier, an animation identifier, and none of its children is ever
\* taken up, so no identifier comes from a descendant of a node that matched
\* no rule.
C38_RuleChoiceAndFallback ==
    /\ \A p \in DOMAIN id_applied :
          LET own == RulesGet(TagLower(id_tree[p].tag))
              ctx == id_applied[p].ctx
          IN  id_applied[p].rule =
                  IF own # NoRule THEN own
                  ELSE IF ctx # None /\ RulesGet(ctx) # NoRule THEN RulesGet(ctx)
                  ELSE FallbackRule
    /\ \A p \in DOMAIN id_applied :
          id_applied[p].rule = FallbackRule =>
              /\ {e.id : e \in {x \in id_emits : x.path = p}} \subseteq AnimationIds(id_tree[p].tag)
              /\ Cardinality({e \in id_emits : e.path = p}) <= 1
              /\ \A q \in DOMAIN id_tree :
                    p \in ProperAncestors(q) =>
                        /\ q \notin DOMAIN id_applied
                        /\ \A i \in DOMAIN id_stack : id_stack[i].path # q
    /\ \A e \in id_emits :
          \A q \in ProperAncestors(e.path) :
              q \in DOMAIN id_applied /\ id_applied[q].rule # FallbackRule

\* A finished call in which a node with an unknown tag, pushed with a context
\* the table has no rule for, went to the fallback and emitted its animation
\* identifier; its child, an item with a rule of its own, was never taken up;
\* and another node emitted through the rule of its own tag.
C38_Witness ==
    /\ id_pc = "done"
    /\ \E p \in DOMAIN id_applied :
          /\ id_applied[p].rule = FallbackRule
          /\ id_applied[p].ctx # None
          /\ \E e \in id_emits : e.path = p
          /\ \E q \in DOMAIN id_tree :
                /\ p \in ProperAncestors(q)
                /\ RulesGet(TagLower(id_tree[q].tag)).kind = "id"
                /\ q \notin DOMAIN id_applied
    /\ \E p \in DOMAIN id_applied :
          /\ id_applied[p].rule.kind = "id"
          /\ \E e \in id_emits : e.path = p

-----------------------------------------------------------------------------
\* SpecLists: the operations on the active and inactive lists, in any order,
\* from the lists a scan has left.

MaxListDeps == 2

ListDepMenu ==
    { [src |-> "a", dep |-> Dep("b", "requirement", NoCond, EmptyAttrs)],
      [src |-> "b", dep |-> Dep("a", "requirement", NoCond, EmptyAttrs)],
      [src |-> "b", dep |-> Dep("c", "patch", NoCond, EmptyAttrs)] }

\* list[idx1], list[idx2] = list[idx2], list[idx1]
Swapped(list, idx1, idx2) ==
    [i \in DOMAIN list |-> IF i = idx1 THEN list[idx2]
                           ELSE IF i = idx2 THEN list[idx1] ELSE list[i]]

\* list.remove(mod); list.append(mod)
MovedToEnd(list, mod_id) ==
    IF mod_id \in Range(list) THEN Append(Remove(list, mod_id), mod_id) ELSE list

\* The call made, and whether each id it was given is in the list it works on.
ListStep(op, members) ==
    /\ last_call' = [op |-> op, members |-> members]
    /\ UNCHANGED <<mod_map, load_order, errors, warnings, lifeVars,
                   cacheVars, toggleVars, presetVars, parVars, idVars>>

\* An activate_all_mods that forgets inactive_mods.clear().
ActivateAllModsKeepsInactive ==
    /\ active_mods' = active_mods \o inactive_mods
    /\ inactive_mods' = inactive_mods
    /\ ListStep("activate_all_mods", TRUE)

\* ModManager.activate_all_mods
ActivateAllMods ==
    /\ IF inactive_mods = <<>> THEN UNCHANGED <<active_mods, inactive_mods>>
       ELSE /\ active_mods' = active_mods \o inactive_mods
            /\ inactive_mods' = <<>>
    /\ ListStep("activate_all_mods", TRUE)

\* ModManager.swap_active_mods: the loop sets idx1 where it meets mod_id1 and
\* otherwise idx2 where it meets mod_id2.
SwapActiveMods(mod_id1, mod_id2) ==
    /\ IF /\ mod_id1 \in DOMAIN mod_map /\ mod_id2 \in DOMAIN mod_map
          /\ mod_id1 \in Range(active_mods)
          /\ mod_id2 # mod_id1 /\ mod_id2 \in Range(active_mods)
       THEN active_mods' = Swapped(active_mods, IndexOf(active_mods, mod_id1),
                                   IndexOf(active_mods, mod_id2))
       ELSE UNCHANGED active_mods
    /\ UNCHANGED inactive_mods
    /\ ListStep("swap_active_mods", {mod_id1, mod_id2} \subseteq Range(active_mods))

\* ModManager.swap_inactive_mods
SwapInactiveMods(mod_id1, mod_id2) ==
    /\ IF /\ mod_id1 \in DOMAIN mod_map /\ mod_id2 \in DOMAIN mod_map
          /\ mod_id1 \in Range(inactive_mods) /\ mod_id2 \in Range(inactive_mods)
       THEN inactive_mods' = Swapped(inactive_mods, IndexOf(inactive_mods, mod_id1),
                                     IndexOf(inactive_mods, mod_id2))
       ELSE UNCHANGED inactive_mods
    /\ UNCHANGED active_mods
    /\ ListStep("swap_inactive_mods", {mod_id1, mod_id2} \subseteq Range(inactive_mods))

\* ModManager.move_active_mod_to_end
MoveActiveModToEnd(mod_id) ==
    /\ active_mods' = IF mod_id \in DOMAIN mod_map THEN MovedToEnd(active_mods, mod_id)
                      ELSE active_mods
    /\ UNCHANGED inactive_mods
    /\ ListStep("move_active_mod_to_end", mod_id \in Range(active_mods))

\* ModManager.move_inactive_mod_to_end
MoveInactiveModToEnd(mod_id) ==
    /\ inactive_mods' = IF mod_id \in DOMAIN mod_map THEN MovedToEnd(inactive_mods, mod_id)
                        ELSE inactive_mods
    /\ UNCHANGED active_mods
    /\ ListStep("move_inactive_mod_to_end", mod_id \in Range(inactive_mods))

RECURSIVE NewActiveMods(_, _)
\* load_preset lines 109-135 over the packages the preset's nodes resolve to,
\* in file order (UnknownId: a node that resolves to nothing).
NewActiveMods(resolved, acc) ==
    IF resolved = <<>> THEN acc
    ELSE NewActiveMods(Tail(resolved),
                       IF Head(resolved) \in DOMAIN mod_map /\ Head(resolved) \notin Range(acc)
                       THEN Append(acc, Head(resolved)) ELSE acc)

\* ModManager.load_preset (lines 137-146) with the preset file in place.
LoadPresetResolved(resolved) ==
    \E new_active_mods \in {NewActiveMods(resolved, <<>>)} :
        /\ active_mods' = new_active_mods
        /\ inactive_mods' = SelectSeq(SeqOf(DOMAIN mod_map),
                                      LAMBDA id : id \notin Range(new_active_mods))
        /\ load_order' = [id \in DOMAIN load_order |->
                            IF id \in Range(new_active_mods)
                            THEN IndexOf(new_active_mods, id) ELSE load_order[id]]
        /\ last_call' = [op |-> "load_preset", members |-> TRUE]
        /\ UNCHANGED <<mod_map, errors, warnings, lifeVars,
                       cacheVars, toggleVars, presetVars, parVars, idVars>>

InitLists ==
    /\ \E D \in SubsetsUpTo(ListDepMenu, MaxListDeps) :
           mod_map = MakeModMap(D, Soft(PlainNames, NoIds, NoIds, NoModSettings))
    /\ active_mods \in ActiveLists
    /\ inactive_mods = SeqOf(ModIds \ Range(active_mods))
    /\ load_order = [m \in ModIds |->
           IF m \in Range(active_mods) THEN IndexOf(active_mods, m) ELSE NoOrder]
    /\ errors = [m \in ModIds |-> <<>>]
    /\ warnings = [m \in ModIds |-> <<>>]
    /\ last_call = NoCall
    /\ CacheIdle
    /\ ToggleIdle
    /\ PresetIdle
    /\ LifeIdle
    /\ ParIdle
    /\ IdIdle

NextLists ==
    \/ \E mod_id \in ModIds \cup {UnknownId} : ActivateMod(mod_id)
    \/ \E mod_id \in ModIds \cup {UnknownId} : DeactivateMod(mod_id)
    \/ ActivateAllMods
    \/ \E mod_id1, mod_id2 \in ModIds \cup {UnknownId} : SwapActiveMods(mod_id1, mod_id2)
    \/ \E mod_id1, mod_id2 \in ModIds \cup {UnknownId} : SwapInactiveMods(mod_id1, mod_id2)
    \/ \E mod_id \in ModIds \cup {UnknownId} : MoveActiveModToEnd(mod_id)
    \/ \E mod_id \in ModIds \cup {UnknownId} : MoveInactiveModToEnd(mod_id)
    \/ \E resolved \in UNION {[1..n -> ModIds \cup {UnknownId}] : n \in 0..2} :
          LoadPresetResolved(resolved)
    \/ SortCall

SpecLists == InitLists /\ [][NextLists]_vars

Partition ==
    /\ NoDup(active_mods \o inactive_mods)
    /\ Range(active_mods \o inactive_mods) = DOMAIN mod_map

ListsKept == active_mods' = active_mods /\ inactive_mods' = inactive_mods

MisdirectedKept ==
    (/\ last_call'.op \in {"swap_active_mods", "swap_inactive_mods",
                            "move_active_mod_to_end", "move_inactive_mod_to_end"}
     /\ ~last_call'.members) => ListsKept

\* C39: in every state the list operations reach from the lists a scan left,
\* every known package is exactly once in exactly one of the active and the
\* inactive list and the lists hold no other package; and a swap whose two
\* ids are not both in its list, or a move whose id is not in its list,
\* changes neither list.
C39_ListsPartitionKnownPackages == []Partition /\ [][MisdirectedKept]_vars

\* After a sort that activated a package on its own, with a package still
\* inactive, the lists are a partition in an order no scan leaves.
C39_Witness ==
    /\ last_call.op = "sort"
    /\ last_call.auto # {}
    /\ inactive_mods # <<>>
    /\ last_call.pre_inactive # SeqOf(ModIds \ Range(last_call.pre_active))
    /\ Partition

=============================================================================
